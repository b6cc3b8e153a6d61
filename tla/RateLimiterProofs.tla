------------------------- MODULE RateLimiterProofs -------------------------
(***************************************************************************)
(* Theorems about RateLimiter, for every limit, window and set of keys.    *)
(***************************************************************************)
EXTENDS RateLimiter, TLAPS

\* the last refusal of a key sent it beyond the window of its oldest hit
PromiseIsBeyond ==
  \A k \in Keys :
    promise[k] # None => Len(hits[k]) > 0 /\ promise[k] > hits[k][1] + Window

IndInv == TypeOK /\ DequeIsRecentPast /\ WindowBound /\ PromiseIsBeyond

LEMMA InitIndInv == Init => IndInv
  BY LimiterAssumption
  DEF Init, IndInv, TypeOK, DequeIsRecentPast, RecentPast, WindowBound, Spaced, PromiseIsBeyond

LEMMA SubSeqType ==
  ASSUME NEW H \in Seq(Nat), NEW n \in 0 .. Len(H)
  PROVE  SubSeq(H, n + 1, Len(H)) \in Seq(Nat)
  OBVIOUS

\* Popping what is stale leaves the recent past.
LEMMA PopsKeepRecentPast ==
  ASSUME NEW A \in Seq(Nat), NEW H \in Seq(Nat), RecentPast(H, A),
         NEW n \in 0 .. Len(H), Pops(H, n)
  PROVE  RecentPast(SubSeq(H, n + 1, Len(H)), A)
<1> DEFINE F == SubSeq(H, n + 1, Len(H))
<1>1. Len(A) \in Nat /\ Len(H) \in Nat /\ n \in Nat /\ n <= Len(H) /\ Len(H) <= Len(A)
  BY DEF RecentPast
<1>2. Len(F) = Len(H) - n /\ \A i \in 1 .. Len(F) : F[i] = H[n + i]
  BY <1>1
<1> HIDE DEF F
<1>3. Len(F) \in Nat /\ Len(F) <= Limit /\ Len(F) <= Len(A)
  BY <1>1, <1>2, LimiterAssumption DEF RecentPast
<1>4. ASSUME NEW i \in 1 .. Len(A) - Len(F) PROVE Stale(A[i])
  <2>1. CASE i <= Len(A) - Len(H)
    <3>1. i \in 1 .. Len(A) - Len(H)
      BY <1>1, <1>2, <2>1
    <3> QED
      BY <3>1 DEF RecentPast
  <2>2. CASE ~(i <= Len(A) - Len(H))
    <3>1. PICK m : m = i - (Len(A) - Len(H))
      OBVIOUS
    <3>2. m \in 1 .. n /\ m \in 1 .. Len(H) /\ Len(A) - Len(H) + m = i
      BY <1>1, <1>2, <1>3, <2>2, <3>1
    <3>3. H[m] = A[i]
      BY <3>2 DEF RecentPast
    <3> QED
      BY <3>2, <3>3 DEF Pops
  <2> QED
    BY <2>1, <2>2
<1>5. ASSUME NEW i \in 1 .. Len(F) PROVE F[i] = A[Len(A) - Len(F) + i]
  <2>1. PICK m \in Int : m = n + i
    BY <1>1, <1>3
  <2>2. m \in 1 .. Len(H) /\ Len(A) - Len(H) + m = Len(A) - Len(F) + i
    BY <1>1, <1>2, <1>3, <2>1
  <2>3. H[m] = A[Len(A) - Len(H) + m]
    BY <2>2 DEF RecentPast
  <2> QED
    BY <1>2, <2>1, <2>2, <2>3
<1>6. RecentPast(F, A)
  BY <1>3, <1>4, <1>5 DEF RecentPast
<1> QED
  BY <1>6 DEF F

\* Entering a new time at the end of both keeps the recent past.
LEMMA AppendKeepsRecentPast ==
  ASSUME NEW A \in Seq(Nat), NEW F \in Seq(Nat), RecentPast(F, A), Len(F) < Limit, NEW t \in Nat
  PROVE  RecentPast(Append(F, t), Append(A, t))
<1>1. Len(A) \in Nat /\ Len(F) \in Nat /\ Len(F) <= Len(A) /\ Limit \in Nat
  BY LimiterAssumption DEF RecentPast
<1>2. /\ Len(Append(A, t)) = Len(A) + 1 /\ Len(Append(F, t)) = Len(F) + 1
      /\ Append(A, t)[Len(A) + 1] = t /\ Append(F, t)[Len(F) + 1] = t
      /\ \A i \in 1 .. Len(A) : Append(A, t)[i] = A[i]
      /\ \A i \in 1 .. Len(F) : Append(F, t)[i] = F[i]
  OBVIOUS
<1>3. ASSUME NEW i \in 1 .. Len(F) + 1
      PROVE  Append(F, t)[i] = Append(A, t)[Len(A) - Len(F) + i]
  <2>1. CASE i = Len(F) + 1
    BY <1>1, <1>2, <2>1
  <2>2. CASE i # Len(F) + 1
    <3>1. PICK m : m = Len(A) - Len(F) + i
      OBVIOUS
    <3>2. i \in 1 .. Len(F) /\ m \in 1 .. Len(A)
      BY <1>1, <2>2, <3>1
    <3>3. F[i] = A[m]
      BY <3>1, <3>2 DEF RecentPast
    <3> QED
      BY <1>2, <3>1, <3>2, <3>3
  <2> QED
    BY <2>1, <2>2
<1>4. ASSUME NEW i \in 1 .. Len(A) - Len(F) PROVE Stale(Append(A, t)[i])
  <2>1. i \in 1 .. Len(A)
    BY <1>1
  <2> QED
    BY <1>2, <2>1 DEF RecentPast
<1>5. (Len(A) + 1) - (Len(F) + 1) = Len(A) - Len(F) /\ Len(F) + 1 <= Limit
  BY <1>1
<1> DEFINE FF == Append(F, t)
           AA == Append(A, t)
<1>6. /\ Len(FF) = Len(F) + 1 /\ Len(AA) = Len(A) + 1 /\ Len(AA) - Len(FF) = Len(A) - Len(F)
  BY <1>1, <1>2, <1>5
<1>7. /\ \A i \in 1 .. Len(F) + 1 : FF[i] = AA[Len(A) - Len(F) + i]
      /\ \A i \in 1 .. Len(A) - Len(F) : Stale(AA[i])
  BY <1>3, <1>4
<1> HIDE DEF FF, AA
<1>8. Len(FF) <= Limit /\ Len(FF) <= Len(AA)
  BY <1>1, <1>5, <1>6
<1>9. RecentPast(FF, AA)
  BY <1>6, <1>7, <1>8 DEF RecentPast
<1> QED
  BY <1>9 DEF FF, AA

\* A key that has fewer than Limit hits in the window may be let through.
LEMMA AppendKeepsSpaced ==
  ASSUME NEW A \in Seq(Nat), NEW F \in Seq(Nat), RecentPast(F, A), Len(F) < Limit,
         Spaced(A), time \in Nat
  PROVE  Spaced(Append(A, time))
<1>1. /\ Len(A) \in Nat /\ Len(F) \in Nat /\ Len(F) <= Len(A)
      /\ Limit \in Nat \ {0} /\ Window \in Nat
  BY LimiterAssumption DEF RecentPast
<1>2. /\ Len(Append(A, time)) = Len(A) + 1 /\ Append(A, time)[Len(A) + 1] = time
      /\ \A i \in 1 .. Len(A) : Append(A, time)[i] = A[i]
  OBVIOUS
<1>3. ASSUME NEW i \in 1 .. Len(A) + 1 - Limit
      PROVE  Append(A, time)[i + Limit] - Append(A, time)[i] > Window
  <2>1. i \in 1 .. Len(A)
    BY <1>1
  <2>2. CASE i + Limit = Len(A) + 1
    <3>1. i \in 1 .. Len(A) - Len(F)
      BY <1>1, <2>2
    <3>2. Stale(A[i])
      BY <3>1 DEF RecentPast
    <3> QED
      BY <1>2, <2>1, <2>2, <3>2 DEF Stale
  <2>3. CASE i + Limit # Len(A) + 1
    <3>1. i \in 1 .. Len(A) - Limit /\ i + Limit \in 1 .. Len(A)
      BY <1>1, <2>3
    <3>2. A[i + Limit] - A[i] > Window
      BY <3>1 DEF Spaced
    <3> QED
      BY <1>2, <2>1, <3>1, <3>2
  <2> QED
    BY <2>2, <2>3
<1> DEFINE AA == Append(A, time)
<1>4. Len(AA) = Len(A) + 1
  BY <1>2
<1>5. \A i \in 1 .. Len(A) + 1 - Limit : AA[i + Limit] - AA[i] > Window
  BY <1>3
<1> HIDE DEF AA
<1>6. Spaced(AA)
  BY <1>1, <1>4, <1>5 DEF Spaced
<1> QED
  BY <1>6 DEF AA

\* The promise made on a refusal lies beyond the window of the oldest hit.
LEMMA RetryIsEnough ==
  ASSUME NEW h \in Nat, time \in Nat
  PROVE  /\ RetryAfter(h) \in Int
         /\ time + RetryAfter(h) * Second > h + Window
<1>1. Second \in Nat \ {0} /\ Window \in Nat
  BY LimiterAssumption
<1>2. PICK a \in Int : a = Window - (time - h)
  BY <1>1
<1>3. PICK q \in Int : q = a \div Second
  BY <1>1
<1>4. a = Second * q + (a % Second) /\ a % Second \in 0 .. Second - 1
  BY <1>1, <1>3
<1>5. (q + 1) * Second = Second * q + Second
  BY <1>1
<1>6. (q + 1) * Second > a /\ (q + 1) * Second \in Int
  BY <1>1, <1>4, <1>5
<1>7. RetryAfter(h) = q + 1
  BY <1>2, <1>3 DEF RetryAfter
<1> QED
  BY <1>1, <1>2, <1>6, <1>7

LEMMA CheckIndInv ==
  ASSUME IndInv, NEW k \in Keys, Check(k)
  PROVE  IndInv'
<1> DEFINE A == admitted[k]
<1>0. /\ Limit \in Nat \ {0} /\ None \notin Int
      /\ time \in Nat /\ time' = time
      /\ hits \in [Keys -> Seq(Nat)] /\ admitted \in [Keys -> Seq(Nat)]
      /\ promise \in [Keys -> Int \cup {None}]
      /\ A \in Seq(Nat) /\ hits[k] \in Seq(Nat)
  BY LimiterAssumption DEF IndInv, TypeOK, Check
<1>1. PICK n \in 0 .. Len(hits[k]) :
        /\ Pops(hits[k], n)
        /\ \/ Admit(k, SubSeq(hits[k], n + 1, Len(hits[k])))
           \/ Refuse(k, SubSeq(hits[k], n + 1, Len(hits[k])))
  BY DEF Check
<1>2. PICK fresh \in Seq(Nat) : fresh = SubSeq(hits[k], n + 1, Len(hits[k]))
  BY <1>0, SubSeqType
<1>3. RecentPast(fresh, A)
  BY <1>0, <1>1, <1>2, PopsKeepRecentPast DEF IndInv, DequeIsRecentPast
<1>4. \A h, a : RecentPast(h, a) => RecentPast(h, a)'
  BY <1>0 DEF RecentPast, Stale
<1>5. CASE Admit(k, fresh)
  <2>1. /\ Len(fresh) < Limit
        /\ hits' = [hits EXCEPT ![k] = Append(fresh, time)]
        /\ admitted' = [admitted EXCEPT ![k] = Append(A, time)]
        /\ promise' = [promise EXCEPT ![k] = None]
    BY <1>0, <1>5 DEF Admit, Full
  <2>2. TypeOK'
    BY <1>0, <2>1 DEF TypeOK
  <2>3. DequeIsRecentPast'
    <3>1. RecentPast(Append(fresh, time), Append(A, time))
      BY <1>0, <1>3, <2>1, AppendKeepsRecentPast
    <3>2. \A j \in Keys : RecentPast(hits'[j], admitted'[j])
      BY <1>0, <2>1, <3>1 DEF IndInv, DequeIsRecentPast
    <3> QED
      BY <1>0, <3>2 DEF DequeIsRecentPast, RecentPast, Stale
  <2>4. WindowBound'
    <3>1. Spaced(Append(A, time))
      BY <1>0, <1>3, <2>1, AppendKeepsSpaced DEF IndInv, WindowBound
    <3> QED
      BY <1>0, <2>1, <3>1 DEF IndInv, WindowBound, Spaced
  <2>5. PromiseIsBeyond'
    BY <1>0, <2>1 DEF IndInv, PromiseIsBeyond
  <2> QED
    BY <2>2, <2>3, <2>4, <2>5 DEF IndInv
<1>6. CASE Refuse(k, fresh)
  <2>1. /\ Len(fresh) >= Limit
        /\ hits' = [hits EXCEPT ![k] = fresh]
        /\ promise' = [promise EXCEPT ![k] = time + RetryAfter(fresh[1]) * Second]
        /\ admitted' = admitted
    BY <1>6 DEF Refuse, Full
  <2>2. Len(fresh) > 0 /\ fresh[1] \in Nat
    BY <1>0, <2>1
  <2>3. /\ RetryAfter(fresh[1]) \in Int
        /\ time + RetryAfter(fresh[1]) * Second > fresh[1] + Window
    BY <1>0, <2>2, RetryIsEnough
  <2>4. TypeOK'
    BY <1>0, <2>1, <2>3, LimiterAssumption DEF TypeOK
  <2>5. DequeIsRecentPast'
    <3>1. \A j \in Keys : RecentPast(hits'[j], admitted'[j])
      BY <1>0, <1>3, <2>1 DEF IndInv, DequeIsRecentPast
    <3> QED
      BY <1>0, <3>1 DEF DequeIsRecentPast, RecentPast, Stale
  <2>6. WindowBound'
    BY <2>1 DEF IndInv, WindowBound, Spaced
  <2>7. PromiseIsBeyond'
    BY <1>0, <2>1, <2>2, <2>3 DEF IndInv, PromiseIsBeyond
  <2> QED
    BY <2>4, <2>5, <2>6, <2>7 DEF IndInv
<1> QED
  BY <1>1, <1>2, <1>5, <1>6

LEMMA NextIndInv == IndInv /\ [Next]_vars => IndInv'
<1> SUFFICES ASSUME IndInv, [Next]_vars PROVE IndInv'  OBVIOUS
<1>1. CASE Restart
  BY <1>1, LimiterAssumption
  DEF Restart, IndInv, TypeOK, DequeIsRecentPast, RecentPast, WindowBound, Spaced, PromiseIsBeyond
<1>2. CASE Tick
  <2>1. TypeOK'
    BY <1>2 DEF Tick, IndInv, TypeOK
  <2>2. WindowBound'
    BY <1>2 DEF Tick, IndInv, WindowBound, Spaced
  <2>3. PromiseIsBeyond'
    BY <1>2 DEF Tick, IndInv, PromiseIsBeyond
  <2>4. \A h \in Nat : Stale(h) => Stale(h)'
    BY <1>2, LimiterAssumption DEF Tick, IndInv, TypeOK, Stale
  <2>5. ASSUME NEW k \in Keys PROVE RecentPast(hits[k], admitted[k])'
    <3>1. hits' = hits /\ admitted' = admitted /\ RecentPast(hits[k], admitted[k])
      BY <1>2 DEF Tick, IndInv, DequeIsRecentPast
    <3>2. \A i \in 1 .. Len(admitted[k]) - Len(hits[k]) : admitted[k][i] \in Nat
      BY <3>1 DEF IndInv, TypeOK, RecentPast
    <3> QED
      BY <2>4, <3>1, <3>2 DEF RecentPast
  <2> QED
    BY <2>1, <2>2, <2>3, <2>5 DEF IndInv, DequeIsRecentPast
<1>3. CASE UNCHANGED vars
  BY <1>3
  DEF vars, IndInv, TypeOK, DequeIsRecentPast, RecentPast, WindowBound, Spaced, PromiseIsBeyond,
      Stale
<1> QED
  BY <1>1, <1>2, <1>3, CheckIndInv DEF Next

THEOREM Invariance == Spec => []IndInv
  BY InitIndInv, NextIndInv, PTL DEF Spec

\* The deque of a key is the end of what the process let through, and every call that popleft
\* took from it is out of the window for good.
THEOREM DequeIsRecentPastHolds == Spec => []DequeIsRecentPast
  BY Invariance, PTL DEF IndInv

\* No process ever lets a key through more than Limit times within a window.
THEOREM WindowBoundHolds == Spec => []WindowBound
  BY Invariance, PTL DEF IndInv

\* Nobody who waits as long as the 429 says is refused again.
THEOREM RetryHonestHolds == Spec => RetryHonest
<1>1. ASSUME IndInv, [Next]_vars, NEW k \in Keys, promise[k] # None, promise'[k] # None,
             promise'[k] # promise[k]
      PROVE  time < promise[k]
  <2>1. CASE Restart \/ Tick \/ UNCHANGED vars
    BY <1>1, <2>1 DEF Restart, Tick, vars
  <2>2. ASSUME NEW j \in Keys, Check(j) PROVE time < promise[k]
    <3>0. /\ Limit \in Nat \ {0} /\ Window \in Nat /\ time \in Nat
          /\ hits[k] \in Seq(Nat) /\ Len(hits[k]) <= Limit /\ Len(hits[k]) > 0
          /\ promise \in [Keys -> Int \cup {None}] /\ promise[k] \in Int
          /\ promise[k] > hits[k][1] + Window
      BY <1>1, LimiterAssumption
      DEF IndInv, TypeOK, DequeIsRecentPast, RecentPast, PromiseIsBeyond
    <3>1. PICK n \in 0 .. Len(hits[j]) :
            /\ Pops(hits[j], n)
            /\ \/ Admit(j, SubSeq(hits[j], n + 1, Len(hits[j])))
               \/ Refuse(j, SubSeq(hits[j], n + 1, Len(hits[j])))
      BY <2>2 DEF Check
    <3>2. j = k /\ Refuse(k, SubSeq(hits[k], n + 1, Len(hits[k])))
      BY <1>1, <3>0, <3>1 DEF Admit, Refuse
    <3>3. Len(SubSeq(hits[k], n + 1, Len(hits[k]))) >= Limit
      BY <3>2 DEF Refuse, Full
    <3>4. n = 0
      BY <3>0, <3>1, <3>2, <3>3
    <3>5. ~Stale(hits[k][1])
      BY <3>0, <3>1, <3>2, <3>4 DEF Pops
    <3>6. hits[k][1] \in Nat
      BY <3>0
    <3> QED
      BY <3>0, <3>5, <3>6 DEF Stale
  <2> QED
    BY <1>1, <2>1, <2>2 DEF Next
<1>2. IndInv /\ [Next]_vars =>
        [\A k \in Keys :
           /\ promise[k] # None /\ promise'[k] # None
           /\ promise'[k] # promise[k]
           => time < promise[k]]_vars
  BY <1>1
<1> QED
  BY <1>2, Invariance, PTL DEF Spec, RetryHonest
=============================================================================
