---------------------------- MODULE RateLimiter ----------------------------
(***************************************************************************)
(* The in-memory sliding window of app/ratelimit.py, which guards logins   *)
(* (key: email and address) and the parsing of phrases (key: user).        *)
(*                                                                         *)
(* check() has no await, so one call is one step.  Time is counted in      *)
(* ticks, Second ticks to a second, because the answer to a refusal is     *)
(* rounded to whole seconds.                                               *)
(***************************************************************************)
EXTENDS Integers, Sequences

CONSTANTS
  Keys,
  Limit,    \* hits a key may have within a window
  Window,   \* window_seconds, in ticks
  Second,   \* ticks in a second
  MaxTime,  \* bound of the clock
  None      \* no promise

ASSUME LimiterAssumption ==
  /\ Limit \in Nat \ {0}   \* with a limit of 0 check() reads hits[0] of an empty deque
  /\ Window \in Nat
  /\ Second \in Nat \ {0}
  /\ MaxTime \in Nat
  /\ None \notin Int

VARIABLES
  time,      \* time.monotonic()
  hits,      \* _hits: the deque of each key
  admitted,  \* history: the times at which this process let a key through
  promise    \* history: when the last refusal told the key to come back

vars == <<time, hits, admitted, promise>>

TypeOK ==
  /\ time \in Nat
  /\ hits \in [Keys -> Seq(Nat)]
  /\ admitted \in [Keys -> Seq(Nat)]
  /\ promise \in [Keys -> Int \cup {None}]

Init ==
  /\ time = 0
  /\ hits = [k \in Keys |-> <<>>]
  /\ admitted = [k \in Keys |-> <<>>]
  /\ promise = [k \in Keys |-> None]
-----------------------------------------------------------------------------
\* mutant of Stale: the end of the window taken as outside
StaleEarly(h) == time - h >= Window

Stale(h) == time - h > Window

\* mutant of Pops: the whole deque is dropped once its oldest hit is out
PopsAll(s, n) == n = IF s # <<>> /\ Stale(s[1]) THEN Len(s) ELSE 0

\* the while loop pops exactly the first n hits of s
Pops(s, n) ==
  /\ \A i \in 1 .. n : Stale(s[i])
  /\ n < Len(s) => ~Stale(s[n + 1])

\* mutant of Full: one hit too many
FullLate(fresh) == Len(fresh) > Limit

Full(fresh) == Len(fresh) >= Limit

\* mutant of RetryAfter: rounded down
RetryAfterDown(h) == (Window - (time - h)) \div Second

\* int(window - (now - hits[0])) + 1, in whole seconds
RetryAfter(h) == (Window - (time - h)) \div Second + 1

Admit(k, fresh) ==
  /\ ~Full(fresh)
  /\ hits' = [hits EXCEPT ![k] = Append(fresh, time)]
  /\ admitted' = [admitted EXCEPT ![k] = Append(@, time)]
  /\ promise' = [promise EXCEPT ![k] = None]

Refuse(k, fresh) ==
  /\ Full(fresh)
  /\ hits' = [hits EXCEPT ![k] = fresh]
  /\ promise' = [promise EXCEPT ![k] = time + RetryAfter(Head(fresh)) * Second]
  /\ UNCHANGED admitted

Check(k) ==
  /\ \E n \in 0 .. Len(hits[k]) :
       /\ Pops(hits[k], n)
       /\ LET fresh == SubSeq(hits[k], n + 1, Len(hits[k]))
          IN  Admit(k, fresh) \/ Refuse(k, fresh)
  /\ UNCHANGED time

\* a new process starts with no hits; what the old one admitted is no longer counted
Restart ==
  /\ hits' = [k \in Keys |-> <<>>]
  /\ admitted' = [k \in Keys |-> <<>>]
  /\ promise' = [k \in Keys |-> None]
  /\ UNCHANGED time

Tick ==
  /\ time < MaxTime
  /\ time' = time + 1
  /\ UNCHANGED <<hits, admitted, promise>>

Next == Restart \/ Tick \/ \E k \in Keys : Check(k)

Spec == Init /\ [][Next]_vars
-----------------------------------------------------------------------------
\* of any Limit + 1 successive times in a the last is more than a window after the first
Spaced(a) == \A i \in 1 .. Len(a) - Limit : a[i + Limit] - a[i] > Window

\* The comment of api/auth.py, "no more than 10 attempts a minute": of any Limit + 1 successive
\* admissions of a key the last comes more than a window after the first.  The deque forgets
\* old hits, yet no burst slips through when they leave the window one by one.
WindowBound == \A k \in Keys : Spaced(admitted[k])

\* The Retry-After of a 429 is honest: a key that waits as long as it was told and has not been
\* let through in the meantime is not refused again.
RetryHonest ==
  [][\A k \in Keys :
       /\ promise[k] # None /\ promise'[k] # None
       /\ promise'[k] # promise[k]
       => time < promise[k]]_vars

\* h is the end of a, not longer than Limit, and what comes before it in a is out of the window
RecentPast(h, a) ==
  /\ Len(h) <= Limit
  /\ Len(h) <= Len(a)
  /\ \A i \in 1 .. Len(h) : h[i] = a[Len(a) - Len(h) + i]
  /\ \A i \in 1 .. Len(a) - Len(h) : Stale(a[i])

\* Why the deque suffices: it is the end of the history of admissions, and every admission it has
\* dropped is out of the window for good.
DequeIsRecentPast == \A k \in Keys : RecentPast(hits[k], admitted[k])
=============================================================================
