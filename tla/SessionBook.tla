---------------------------- MODULE SessionBook ----------------------------
(***************************************************************************)
(* What the sessions of AiSpace promise: a token works from the moment it  *)
(* is issued until its time has come or somebody logs out with it, and     *)
(* never again.  app/services/auth.py implements it with rows that may     *)
(* outlive their sessions.                                                 *)
(***************************************************************************)
EXTENDS Integers

CONSTANTS Tokens, Lifetime

VARIABLES
  time,
  issued,  \* the tokens that were ever issued
  until,   \* until[t]: when the time of an issued token has come
  live     \* the tokens that work

book == <<time, issued, until, live>>

Init ==
  /\ time \in Int
  /\ issued = {}
  /\ until \in [Tokens -> Int]
  /\ live = {}

\* a login that was slow to finish may issue a token whose time has come
Issue(t) ==
  /\ t \in Tokens \ issued
  /\ issued' = issued \cup {t}
  /\ until'[t] <= time + Lifetime
  /\ \A s \in issued : until'[s] = until[s]
  /\ live' = live \cup {s \in {t} : until'[t] > time}
  /\ UNCHANGED time

Close(t) ==
  /\ live' = live \ {t}
  /\ UNCHANGED <<time, issued, until>>

Pass ==
  /\ time' > time
  /\ live' = {t \in live : until[t] > time'}
  /\ UNCHANGED <<issued, until>>

Next == Pass \/ \E t \in Tokens : Issue(t) \/ Close(t)

Spec == Init /\ [][Next]_book
=============================================================================
