------------------------- MODULE AlternativesProofs -------------------------
(***************************************************************************)
(* Theorems about Alternatives and Timeline, for all rooms, meetings and   *)
(* requests and every setting of the time rules that puts working hours    *)
(* and cells on the grid of slots.                                         *)
(***************************************************************************)
EXTENDS Alternatives, Timeline, FiniteSetTheorems, WellFoundedInduction, TLAPS

\* A booking lies within the working hours of one day.
InHours(b) == b.start < b.end /\ WithinHours(b.start, b.end)

\* What a request holds from one step to another: its ask keeps the rules at its now, its session
\* has the room asked for, and only after the first read there are slots.
RequestFollows ==
  /\ pc \in {"idle", "check", "slots", "rooms", "answered"}
  /\ now \in Int
  /\ ask = NoAsk <=> pc = "idle"
  /\ ask # NoAsk => ask \in Asks /\ ValidTimes(ask.start, ask.end, now)
  /\ pc \in {"idle", "check", "slots"} => slots = {}
  /\ DOMAIN known \subseteq Rooms /\ known \in [DOMAIN known -> Row]
  /\ pc \in {"check", "slots", "rooms"} => ask.room \in DOMAIN known

IndInv ==
  /\ OfficeTypeOK
  /\ \A b \in booked : InHours(b)
  /\ RequestFollows
  /\ OffersKeepRules
-----------------------------------------------------------------------------
(***************************************************************************)
(* Arithmetic of days, hours and slots.                                    *)
(***************************************************************************)

LEMMA Division ==
  ASSUME NEW a \in Int, NEW n \in Nat \ {0}
  PROVE  /\ a \div n \in Int /\ a % n \in 0 .. n - 1
         /\ a = n * (a \div n) + (a % n)
  OBVIOUS

LEMMA DivisionUnique ==
  ASSUME NEW n \in Nat \ {0}, NEW q \in Int, NEW r \in 0 .. n - 1
  PROVE  (n * q + r) % n = r /\ (n * q + r) \div n = q
  OBVIOUS

LEMMA MultipleIsProduct ==
  ASSUME NEW n \in Nat \ {0}, NEW a \in Int, a % n = 0
  PROVE  \E q \in Int : a = n * q
<1>1. a \div n \in Int /\ a = n * (a \div n) + (a % n)
  BY Division
<1>2. a = n * (a \div n)
  BY <1>1
<1> HIDE <1>1
<1> QED
  BY <1>2, Division

LEMMA ProductIsMultiple ==
  ASSUME NEW n \in Nat \ {0}, NEW q \in Int
  PROVE  (n * q) % n = 0
<1>1. (n * q + 0) % n = 0
  BY DivisionUnique
<1> QED
  BY <1>1

\* Multiples of n are closed under sums and differences.
LEMMA MultiplesSum ==
  ASSUME NEW n \in Nat \ {0}, NEW a \in Int, NEW b \in Int, a % n = 0, b % n = 0
  PROVE  (a + b) % n = 0 /\ (a - b) % n = 0
<1>1. PICK q \in Int : a = n * q
  BY MultipleIsProduct
<1>2. PICK p \in Int : b = n * p
  BY MultipleIsProduct
<1>3. a + b = n * (q + p) /\ a - b = n * (q - p)
  BY <1>1, <1>2
<1>4. (n * (q + p)) % n = 0 /\ (n * (q - p)) % n = 0
  BY ProductIsMultiple
<1> QED
  BY <1>3, <1>4, Zenon

LEMMA MultipleOfMultiple ==
  ASSUME NEW n \in Nat \ {0}, NEW m \in Nat \ {0}, m % n = 0, NEW a \in Int
  PROVE  (a * m) % n = 0
<1>1. PICK q \in Int : m = n * q
  BY MultipleIsProduct
<1>2. a * m = n * (a * q)
  BY <1>1
<1>3. (n * (a * q)) % n = 0
  BY ProductIsMultiple
<1> QED
  BY <1>2, <1>3, Zenon

\* The remainder is what is left above the multiple below.
LEMMA MultipleBelow ==
  ASSUME NEW n \in Nat \ {0}, NEW a \in Int
  PROVE  (a - (a % n)) % n = 0
<1>1. a - (a % n) = n * (a \div n)
  <2>1. /\ a \div n \in Int /\ a % n \in Int
        /\ a = n * (a \div n) + (a % n)
    BY Division
  <2>2. \A x, y \in Int : a = x + y => a - y = x
    OBVIOUS
  <2>3. n * (a \div n) \in Int
    BY <2>1
  <2> QED
    BY <2>1, <2>2, <2>3, Zenon
<1>2. (n * (a \div n)) % n = 0
  BY Division, ProductIsMultiple
<1> QED
  BY <1>1, <1>2, Zenon

\* A multiple of n is at most a only if it is at most the multiple below a.
LEMMA MultipleAtMost ==
  ASSUME NEW n \in Nat \ {0}, NEW a \in Int, NEW b \in Int, b % n = 0, b <= a
  PROVE  b <= a - (a % n)
<1>1. PICK q \in Int : b = n * q
  BY MultipleIsProduct
<1>2. PICK p \in Int, r \in 0 .. n - 1 : a = n * p + r /\ r = a % n
  BY Division
<1>3. q <= p
  <2> SUFFICES ASSUME q >= p + 1 PROVE FALSE
    BY <1>1, <1>2
  <2>1. n * q >= n * (p + 1)
    OBVIOUS
  <2>2. n * (p + 1) = n * p + n
    OBVIOUS
  <2> QED
    BY <1>1, <1>2, <2>1, <2>2
<1>4. n * q <= n * p
  BY <1>3
<1> HIDE <1>2
<1>5. a - r = n * p
  BY <1>2
<1> QED
  BY <1>1, <1>2, <1>4, <1>5

LEMMA RestOfRest ==
  ASSUME NEW n \in Nat \ {0}, NEW m \in Nat \ {0}, m % n = 0, NEW a \in Int
  PROVE  (a % m) % n = a % n
<1>1. PICK q \in Int, h \in 0 .. m - 1 : a = m * q + h /\ h = a % m
  BY Division
<1>2. PICK p \in Int, r \in 0 .. n - 1 : h = n * p + r /\ r = h % n
  <2>1. /\ h \div n \in Int /\ h % n \in 0 .. n - 1
        /\ h = n * (h \div n) + (h % n)
    BY Division
  <2> QED
    BY <2>1, Zenon
<1>3. PICK k \in Int : m = n * k
  BY MultipleIsProduct
<1>4. a = n * (k * q + p) + r
  <2>1. m * q = n * (k * q)
    BY <1>3
  <2>2. a = n * (k * q) + (n * p + r)
    BY <1>1, <1>2, <2>1, Zenon
  <2>3. n * (k * q) + (n * p + r) = n * (k * q + p) + r
    OBVIOUS
  <2> QED
    BY <2>2, <2>3, Zenon
<1>5. k * q + p \in Int
  OBVIOUS
<1>6. (n * (k * q + p) + r) % n = r
  BY <1>5, DivisionUnique
<1> QED
  BY <1>1, <1>2, <1>4, <1>6, Zenon

LEMMA MultipleOfCoarser ==
  ASSUME NEW n \in Nat \ {0}, NEW m \in Nat \ {0}, m % n = 0, NEW a \in Int, a % m = 0
  PROVE  a % n = 0
<1>1. 0 % n = 0
  OBVIOUS
<1>2. (a % m) % n = a % n
  BY RestOfRest
<1> QED
  BY <1>1, <1>2, Zenon
-----------------------------------------------------------------------------
(***************************************************************************)
(* Days and slots.                                                         *)
(***************************************************************************)

LEMMA Settings ==
  /\ Hour \in Nat \ {0} /\ Day \in Nat \ {0} /\ Slot \in Nat \ {0} /\ TzOffset \in Int
  /\ WorkStart \in 0 .. Day - 1 /\ WorkEnd \in 0 .. Day - 1
  /\ MinLength \in Nat /\ MaxLength \in Nat /\ Horizon \in Nat
  /\ Day % Hour = 0 /\ Hour % Slot = 0 /\ WorkStart % Slot = 0
  BY CalendarAssumption, SettingsAssumption, GridAssumption

\* Slots counted from the full hour are slots counted from midnight.
LEMMA PastSlotIsRest ==
  ASSUME NEW t \in Int
  PROVE  /\ PastSlot(t) = Local(t) % Slot
         /\ PastSlot(t) \in 0 .. Slot - 1
         /\ FloorToSlot(t) \in Int
<1>1. Local(t) \in Int
  BY Settings DEF Local
<1>2. (Local(t) % Hour) % Slot = Local(t) % Slot
  BY <1>1, Settings, RestOfRest
<1>3. Local(t) % Slot \in 0 .. Slot - 1
  BY <1>1, Settings, Division
<1> QED
  BY <1>2, <1>3, Settings DEF PastSlot, FloorToSlot

LEMMA FloorIsAligned ==
  ASSUME NEW t \in Int
  PROVE  Aligned(FloorToSlot(t)) /\ FloorToSlot(t) <= t
<1> DEFINE l == Local(t)
<1>0. l \in Int /\ PastSlot(t) = l % Slot /\ PastSlot(t) \in 0 .. Slot - 1
  BY PastSlotIsRest, Settings DEF Local
<1>1. l \in Int /\ FloorToSlot(t) \in Int /\ FloorToSlot(t) = t - (l % Slot)
      /\ l % Slot \in 0 .. Slot - 1
  BY <1>0, Settings DEF FloorToSlot
<1>2. Local(FloorToSlot(t)) = l - (l % Slot)
  <2>1. TzOffset \in Int /\ l % Slot \in Int
    BY <1>1, Settings
  <2> QED
    BY <1>1, <2>1 DEF Local
<1>3. (l - (l % Slot)) % Slot = 0
  BY <1>1, Settings, MultipleBelow
<1>4. PastSlot(FloorToSlot(t)) = Local(FloorToSlot(t)) % Slot
  BY <1>1, PastSlotIsRest
<1> QED
  BY <1>1, <1>2, <1>3, <1>4, Settings DEF Aligned

\* Steps of whole slots keep to the grid.
LEMMA StepIsAligned ==
  ASSUME NEW s \in Int, NEW t \in Int, Aligned(s), (t - s) % Slot = 0
  PROVE  Aligned(t)
<1>1. Local(s) \in Int /\ Local(s) % Slot = 0 /\ t - s \in Int
  BY PastSlotIsRest, Settings DEF Aligned, Local
<1>2. (Local(s) + (t - s)) % Slot = 0
  BY <1>1, Settings, MultiplesSum
<1>3. Local(t) = Local(s) + (t - s)
  BY Settings DEF Local
<1> QED
  BY <1>2, <1>3, PastSlotIsRest DEF Aligned

\* The last boundary up to m is the floor of m.
LEMMA AlignedBelowFloor ==
  ASSUME NEW t \in Int, NEW m \in Int, Aligned(t), t <= m
  PROVE  t <= FloorToSlot(m)
<1>1. Local(t) \in Int /\ Local(m) \in Int /\ Local(t) % Slot = 0 /\ Local(t) <= Local(m)
  BY PastSlotIsRest, Settings DEF Aligned, Local
<1>2. Local(t) <= Local(m) - (Local(m) % Slot)
  BY <1>1, Settings, MultipleAtMost
<1>3. Local(m) % Slot = PastSlot(m) /\ PastSlot(m) \in Int
  BY PastSlotIsRest, Settings
<1> QED
  BY <1>1, <1>2, <1>3, Settings DEF FloorToSlot, Local

\* The local day of an instant is the one whose midnights enclose it.
LEMMA DayEncloses ==
  ASSUME NEW t \in Int
  PROVE  /\ DayOf(t) \in Int /\ DayOf(t) * Day \in Int
         /\ DayOf(t) * Day <= Local(t) /\ Local(t) < DayOf(t) * Day + Day
<1>1. Local(t) \in Int
  BY Settings DEF Local
<1>2. PICK q \in Int, r \in 0 .. Day - 1 : Local(t) = Day * q + r /\ q = Local(t) \div Day
  BY <1>1, Settings, Division
<1> QED
  BY <1>2, Settings DEF DayOf

LEMMA DayIs ==
  ASSUME NEW t \in Int, NEW d \in Int, d * Day <= Local(t), Local(t) < d * Day + Day
  PROVE  DayOf(t) = d /\ TimeOfDay(t) = Local(t) - d * Day
<1> DEFINE r == Local(t) - d * Day
<1>1. Local(t) \in Int /\ d * Day \in Int /\ d * Day = Day * d
  BY Settings DEF Local
<1>2. r \in 0 .. Day - 1 /\ Local(t) = Day * d + r
  BY <1>1, Settings
<1>3. (Day * d + r) \div Day = d /\ (Day * d + r) % Day = r
  <2> HIDE DEF r
  <2> QED
    BY <1>2, Settings, DivisionUnique
<1> QED
  BY <1>2, <1>3 DEF DayOf, TimeOfDay

\* Midnight and the start of the working day are slot boundaries.
LEMMA OpensIsAligned ==
  ASSUME NEW d \in Int
  PROVE  /\ (d * Day) % Slot = 0
         /\ OpensOn(d) \in Int /\ ClosesOn(d) \in Int /\ Aligned(OpensOn(d))
<1>1. d * Day \in Int /\ OpensOn(d) \in Int /\ ClosesOn(d) \in Int
  BY Settings DEF OpensOn, ClosesOn
<1>2. Day % Slot = 0
  <2>1. PICK k \in Int : Day = Hour * k
    BY Settings, MultipleIsProduct
  <2>2. (k * Hour) % Slot = 0
    BY Settings, MultipleOfMultiple
  <2>3. Hour * k = k * Hour
    BY Settings
  <2> QED
    BY <2>1, <2>2, <2>3, Zenon
<1>3. (d * Day) % Slot = 0
  BY <1>2, Settings, MultipleOfMultiple
<1>4. (d * Day + WorkStart) % Slot = 0
  <2>1. WorkStart \in Int /\ WorkStart % Slot = 0 /\ Slot \in Nat \ {0} /\ d * Day \in Int
    BY <1>1, Settings
  <2> QED
    BY <1>3, <2>1, MultiplesSum
<1>5. Local(OpensOn(d)) = d * Day + WorkStart
  <2>1. TzOffset \in Int /\ WorkStart \in Int
    BY Settings
  <2>2. PICK m \in Int : m = d * Day
    BY <1>1
  <2>3. OpensOn(d) = m + WorkStart - TzOffset
    BY <2>2 DEF OpensOn
  <2>4. Local(OpensOn(d)) = m + WorkStart
    BY <2>1, <2>3 DEF Local
  <2> QED
    BY <2>2, <2>4
<1> QED
  BY <1>1, <1>3, <1>4, <1>5, PastSlotIsRest DEF Aligned

LEMMA OpensOfDay ==
  ASSUME NEW t \in Int
  PROVE  Opens(t) = OpensOn(DayOf(t)) /\ Closes(t) = ClosesOn(DayOf(t))
  BY DEF Opens, Closes, OpensOn, ClosesOn
-----------------------------------------------------------------------------
(***************************************************************************)
(* Induction, with a set in the place of a predicate.                      *)
(***************************************************************************)

\* Numbers have a least one.
LEMMA LeastMember ==
  ASSUME NEW T \in SUBSET Nat, T # {}
  PROVE  \E x \in T : \A y \in T : x <= y
<1> DEFINE R == {ss \in Nat \X Nat : ss[1] < ss[2]}
<1>1. R = OpToRel(<, Nat)
  BY DEF OpToRel
<1>2. IsWellFoundedOn(R, Nat)
  BY <1>1, NatLessThanWellFounded
<1>3. PICK x \in T : \A y \in T : ~(<<y, x>> \in R)
  BY <1>2, WFMin
<1>4. ASSUME NEW y \in T PROVE x <= y
  <2>1. x \in Nat /\ y \in Nat /\ ~(<<y, x>> \in R)
    BY <1>3
  <2> QED
    BY <2>1
<1> QED
  BY <1>4

\* Induction up to n, with a set in the place of a predicate.
LEMMA UpTo ==
  ASSUME NEW n \in Nat, NEW S, 0 \in S, \A i \in 0 .. n - 1 : i \in S => i + 1 \in S
  PROVE  \A i \in 0 .. n : i \in S
<1> DEFINE T == {i \in 0 .. n : i \notin S}
<1> SUFFICES ASSUME T # {} PROVE FALSE
  OBVIOUS
<1>1. PICK x \in T : \A y \in T : x <= y
  <2>1. T \in SUBSET Nat
    OBVIOUS
  <2> HIDE DEF T
  <2> QED
    BY <2>1, LeastMember
<1>2. x \in 0 .. n /\ x \notin S /\ x # 0
  OBVIOUS
<1>3. x - 1 \in 0 .. n - 1 /\ x - 1 \notin T
  BY <1>1, <1>2
<1>4. x - 1 \in S
  BY <1>3
<1>5. (x - 1) + 1 \in S
  BY <1>3, <1>4
<1> QED
  BY <1>2, <1>5
-----------------------------------------------------------------------------
(***************************************************************************)
(* The greedy loop of free_slots_same_day.                                 *)
(***************************************************************************)

\* both turns at a distance
Step(C, s, l, before, d) == Turn(C, Turn(C, before, s - d, l), s + d, l)

\* The recursion of Picked is well-founded: it has the value its definition says.
LEMMA PickedUnfolds ==
  ASSUME NEW C, NEW s, NEW l, Day \in Nat
  PROVE  /\ Picked(C, s, l)[0] = Step(C, s, l, {}, 0)
         /\ \A d \in 1 .. Day : Picked(C, s, l)[d] = Step(C, s, l, Picked(C, s, l)[d - 1], d)
<1> DEFINE Recurs(f, n) == f = [d \in 0 .. n |-> Step(C, s, l, IF d = 0 THEN {} ELSE f[d - 1], d)]
           S == {n \in Nat : \E f : Recurs(f, n)}
<1>1. 0 \in S
  <2> DEFINE f == [d \in 0 .. 0 |-> Step(C, s, l, {}, 0)]
  <2>1. Recurs(f, 0)
    <3> HIDE DEF Step
    <3> QED OBVIOUS
  <2> QED
    BY <2>1
<1>2. ASSUME NEW n \in Nat, n \in S PROVE n + 1 \in S
  <2>1. PICK f : Recurs(f, n)
    BY <1>2
  <2> DEFINE g == [d \in 0 .. n + 1 |-> IF d <= n THEN f[d] ELSE Step(C, s, l, f[n], d)]
  <2>2. \A d \in 0 .. n + 1 : g[d] = Step(C, s, l, IF d = 0 THEN {} ELSE g[d - 1], d)
    <3> SUFFICES ASSUME NEW d \in 0 .. n + 1
                 PROVE  g[d] = Step(C, s, l, IF d = 0 THEN {} ELSE g[d - 1], d)
      OBVIOUS
    <3>1. CASE d <= n
      <4>1. f[d] = Step(C, s, l, IF d = 0 THEN {} ELSE f[d - 1], d)
        BY <2>1, <3>1
      <4>2. d # 0 => g[d - 1] = f[d - 1]
        BY <3>1
      <4> QED
        BY <3>1, <4>1, <4>2
    <3>2. CASE d = n + 1
      BY <3>2
    <3> QED
      BY <3>1, <3>2
  <2>3. Recurs(g, n + 1)
    BY <2>2
  <2> HIDE DEF Recurs, g
  <2> QED
    BY <2>3
<1>3. Day \in S
  <2> HIDE DEF S
  <2> QED
  BY <1>1, <1>2, UpTo
<1>4. PICK f : Recurs(f, Day)
  BY <1>3
<1>5. Recurs(Picked(C, s, l), Day)
  BY <1>4, Zenon DEF Picked, Step
<1> QED
  BY <1>5
Length(a) == a.end - a.start

\* the starts whose turn has come at distance d
Within(a, d) == {t \in Int : Abs(t - a.start) <= d}

\* the reasons not to offer c when the starts in P are picked
Reason(P, c, a) ==
  \/ \E o \in P : Before(o, c, a) /\ Meets(Span(c, Length(a)), Span(o, Length(a)))
  \/ Cardinality(P) = MaxAlternatives /\ \A o \in P : Before(o, c, a)

\* what the greedy loop has done when the turns of the starts in T are over
Handled(P, C, T, a) ==
  /\ P \subseteq C \cap T
  /\ IsFiniteSet(P) /\ Cardinality(P) <= MaxAlternatives
  /\ \A p, q \in P : p # q => ~Meets(Span(p, Length(a)), Span(q, Length(a)))
  /\ \A c \in (C \cap T) \ P : Reason(P, c, a)

LEMMA MeetsIsSymmetric ==
  ASSUME NEW p \in Int, NEW q \in Int, NEW l \in Int
  PROVE  Meets(Span(p, l), Span(q, l)) <=> Meets(Span(q, l), Span(p, l))
  BY DEF Meets, Span

\* One turn, of a start that comes after those in T, keeps the account of what was done.
LEMMA TurnHandles ==
  ASSUME NEW C \in SUBSET Int, NEW T \in SUBSET Int, NEW a, Length(a) \in Int, NEW c \in Int,
         NEW P, Handled(P, C, T, a), Before(c, c, a), \A t \in T : Before(t, c, a)
  PROVE  Handled(Turn(C, P, c, Length(a)), C, T \cup {c}, a)
<1> DEFINE l == Length(a)
           Q == Turn(C, P, c, l)
<1>0. MaxAlternatives \in Nat \ {0} /\ Cardinality(P) \in Nat /\ P \subseteq Int
  BY AlternativesAssumption, FS_CardinalityType DEF Handled
<1>1. CASE c \in C /\ Cardinality(P) < MaxAlternatives /\ \A p \in P : ~Meets(Span(c, l), Span(p, l))
  <2>1. Q = P \cup {c}
    BY <1>1 DEF Turn, Pick
  <2>2. IsFiniteSet(Q) /\ Cardinality(Q) <= MaxAlternatives
    <3>1. IsFiniteSet(P)
      BY DEF Handled
    <3>2. /\ IsFiniteSet(P \cup {c})
          /\ Cardinality(P \cup {c}) = IF c \in P THEN Cardinality(P) ELSE Cardinality(P) + 1
      BY <3>1, FS_AddElement, Zenon
    <3>3. Cardinality(P \cup {c}) <= MaxAlternatives
      BY <1>0, <1>1, <3>2
    <3> QED
      BY <2>1, <3>2, <3>3, Zenon
  <2>3. \A p, q \in Q : p # q => ~Meets(Span(p, l), Span(q, l))
    BY <1>0, <1>1, <2>1, MeetsIsSymmetric DEF Handled
  <2>4. ASSUME NEW x \in (C \cap (T \cup {c})) \ Q PROVE Reason(Q, x, a)
    <3>1. x \in (C \cap T) \ P
      BY <2>1, <2>4
    <3>2. PICK o \in P : Before(o, x, a) /\ Meets(Span(x, l), Span(o, l))
      BY <1>0, <1>1, <3>1 DEF Handled, Reason
    <3> QED
      BY <2>1, <3>2 DEF Reason
  <2> QED
    BY <1>1, <2>1, <2>2, <2>3, <2>4 DEF Handled
<1>2. CASE ~(c \in C /\ Cardinality(P) < MaxAlternatives /\ \A p \in P : ~Meets(Span(c, l), Span(p, l)))
  <2>1. Q = P
    BY <1>2 DEF Turn, Pick
  <2>2. ASSUME c \in C PROVE Reason(P, c, a)
    <3>1. \A o \in P : Before(o, c, a)
      BY DEF Handled
    <3>2. CASE \E p \in P : Meets(Span(c, l), Span(p, l))
      BY <3>1, <3>2 DEF Reason
    <3>3. CASE ~(Cardinality(P) < MaxAlternatives)
      BY <1>0, <3>1, <3>3 DEF Reason, Handled
    <3> QED
      BY <1>2, <2>2, <3>2, <3>3
  <2> QED
    BY <2>1, <2>2 DEF Handled
<1> QED
  BY <1>1, <1>2

\* The starts at distance d come after those that are nearer, and the earlier of the two first.
LEMMA StepHandles ==
  ASSUME NEW C \in SUBSET Int, NEW a, a.start \in Int, Length(a) \in Int, NEW d \in Nat, NEW P,
         Handled(P, C, IF d = 0 THEN {} ELSE Within(a, d - 1), a)
  PROVE  Handled(Step(C, a.start, Length(a), P, d), C, Within(a, d), a)
<1> DEFINE T == IF d = 0 THEN {} ELSE Within(a, d - 1)
           early == a.start - d
           late == a.start + d
           Q == Turn(C, P, early, Length(a))
<1>1. T \in SUBSET Int /\ early \in Int /\ late \in Int
  BY DEF Within
<1>2. \A t \in T : Before(t, early, a) /\ Before(t, late, a)
  BY DEF Within, Before, Abs
<1>3. Before(early, early, a) /\ Before(late, late, a) /\ Before(early, late, a)
  BY DEF Before, Abs
<1>4. Handled(Q, C, T \cup {early}, a)
  <2>1. Handled(P, C, T, a)
    OBVIOUS
  <2> HIDE DEF T, early
  <2> QED
    BY <1>1, <1>2, <1>3, <2>1, TurnHandles
<1>5. Handled(Turn(C, Q, late, Length(a)), C, (T \cup {early}) \cup {late}, a)
  <2> HIDE DEF T, early, late, Q
  <2> QED
    BY <1>1, <1>2, <1>3, <1>4, TurnHandles
<1>6. (T \cup {early}) \cup {late} = Within(a, d)
  BY DEF Within, Abs
<1> QED
  BY <1>5, <1>6 DEF Step

\* When the loop is over every candidate is picked or has a reason not to be.
LEMMA GreedyHandles ==
  ASSUME NEW C \in SUBSET Int, NEW a, a.start \in Int, Length(a) \in Int, Day \in Nat
  PROVE  Handled(Picked(C, a.start, Length(a))[Day], C, Within(a, Day), a)
<1> DEFINE f == Picked(C, a.start, Length(a))
           S == {d \in Nat : Handled(f[d], C, Within(a, d), a)}
<1>1. /\ f[0] = Step(C, a.start, Length(a), {}, 0)
      /\ \A d \in 1 .. Day : f[d] = Step(C, a.start, Length(a), f[d - 1], d)
  BY PickedUnfolds, Zenon
<1>2. 0 \in S
  <2>1. Handled({}, C, {}, a)
    BY AlternativesAssumption, FS_EmptySet DEF Handled
  <2> QED
    BY <1>1, <2>1, StepHandles
<1>3. ASSUME NEW d \in 0 .. Day - 1, d \in S PROVE d + 1 \in S
  <2>1. d + 1 \in Nat /\ d + 1 # 0 /\ (d + 1) - 1 = d /\ d + 1 \in 1 .. Day
    OBVIOUS
  <2>2. Handled(f[d], C, Within(a, d), a)
    BY <1>3
  <2>3. Handled(Step(C, a.start, Length(a), f[d], d + 1), C, Within(a, d + 1), a)
    <3> HIDE DEF f
    <3> QED
      BY <2>1, <2>2, StepHandles
  <2> QED
    BY <1>1, <2>1, <2>3
<1>4. Day \in S
  <2> HIDE DEF S
  <2> QED
    BY <1>2, <1>3, UpTo
<1> QED
  BY <1>4
-----------------------------------------------------------------------------
(***************************************************************************)
(* The sort of free_rooms.                                                 *)
(***************************************************************************)

\* A sorting lists each room of S once, none after one it is better than.
LEMMA SortingListsAll ==
  ASSUME NEW target, NEW S \in SUBSET Rooms, NEW s \in Sortings(S, target, known)
  PROVE  /\ Cardinality(S) \in Nat
         /\ s \in [1 .. Cardinality(S) -> S]
         /\ \A i, j \in 1 .. Cardinality(S) :
              i < j => s[i] # s[j] /\ ~BetterRoom(target, Seen(known, s[j]), Seen(known, s[i]))
         /\ \A r \in S : \E i \in 1 .. Cardinality(S) : s[i] = r
<1> DEFINE n == Cardinality(S)
<1>1. IsFiniteSet(S) /\ n \in Nat
  BY RoomsAssumption, FS_Subset, FS_CardinalityType
<1>2. /\ s \in Injection(1 .. n, S)
      /\ \A i, j \in 1 .. n :
           i < j => ~BetterRoom(target, Seen(known, s[j]), Seen(known, s[i]))
  BY DEF Sortings
<1>3. s \in [1 .. n -> S] /\ \A i, j \in 1 .. n : s[i] = s[j] => i = j
  BY <1>2 DEF Injection, IsInjective
<1>4. s \in Surjection(1 .. n, S)
  <2>1. Cardinality(1 .. n) = n
    BY <1>1, FS_Interval
  <2> HIDE DEF n
  <2> QED
    BY <1>1, <1>2, <2>1, FS_Injection DEF n
<1>5. \A i, j \in 1 .. n : i < j => s[i] # s[j]
  BY <1>1, <1>3
<1>6. \A r \in S : \E i \in 1 .. n : s[i] = r
  BY <1>4 DEF Surjection
<1> QED
  BY <1>1, <1>2, <1>3, <1>5, <1>6

\* The rooms free for what a asks for, and how many of them are offered.
FreeFor(a) == RoomsFree(a, 1, {a.room})
Offered(a) ==
  IF Cardinality(FreeFor(a)) < MaxAlternatives THEN Cardinality(FreeFor(a)) ELSE MaxAlternatives

\* s lists the rooms free for a in the order of free_rooms, and offer is where it begins.
OfferBegins(s, a, offer) ==
  /\ s \in [1 .. Cardinality(FreeFor(a)) -> FreeFor(a)]
  /\ \A i, j \in 1 .. Cardinality(FreeFor(a)) :
       i < j => /\ s[i] # s[j]
                /\ ~BetterRoom(known[a.room].capacity, Seen(known, s[j]), Seen(known, s[i]))
  /\ \A r \in FreeFor(a) : \E i \in 1 .. Cardinality(FreeFor(a)) : s[i] = r
  /\ offer = [i \in 1 .. Offered(a) |-> s[i]]

\* The first of the sorted rooms.
LEMMA OfferedRoomsAre ==
  ASSUME NEW a \in Asks, NEW offer \in RoomOffers(a)
  PROVE  /\ Cardinality(FreeFor(a)) \in Nat /\ Offered(a) \in 0 .. Cardinality(FreeFor(a))
         /\ FreeFor(a) \subseteq Rooms
         /\ offer \in Seq(Rooms)
         /\ \E s : OfferBegins(s, a, offer)
<1> DEFINE S == FreeFor(a)
           target == known[a.room].capacity
           n == Cardinality(S)
           k == Offered(a)
<1>1. S \in SUBSET Rooms /\ MaxAlternatives \in Nat \ {0}
  BY AlternativesAssumption DEF FreeFor, RoomsFree, OpenRooms
<1>2. PICK s \in Sortings(S, target, known) : offer = FirstOf(s, MaxAlternatives)
  BY DEF RoomOffers, FreeRooms, FreeFor
<1>3. /\ n \in Nat /\ s \in [1 .. n -> S]
      /\ \A i, j \in 1 .. n :
           i < j => s[i] # s[j] /\ ~BetterRoom(target, Seen(known, s[j]), Seen(known, s[i]))
      /\ \A r \in S : \E i \in 1 .. n : s[i] = r
  <2> HIDE DEF S, target
  <2> QED
    BY <1>1, <1>2, SortingListsAll
<1>4. k \in 0 .. n /\ s \in Seq(Rooms) /\ Len(s) = n /\ k = IF n < MaxAlternatives THEN n ELSE MaxAlternatives
  BY <1>1, <1>3 DEF Offered
<1> HIDE DEF S, n, target, k
<1>5. offer = SubSeq(s, 1, k)
  BY <1>2, <1>4 DEF FirstOf
<1>6. offer = [i \in 1 .. k |-> s[i]]
  BY <1>3, <1>4, <1>5
<1>7. offer \in Seq(Rooms)
  BY <1>1, <1>3, <1>4, <1>6
<1>8. OfferBegins(s, a, offer)
  BY <1>3, <1>6 DEF OfferBegins, S, n, target, k
<1> QED
  BY <1>1, <1>3, <1>4, <1>7, <1>8 DEF S, n, k

LEMMA OfferedRoomsTyped ==
  ASSUME NEW a \in Asks
  PROVE  RoomOffers(a) \subseteq Seq(Rooms)
  BY OfferedRoomsAre, Zenon
-----------------------------------------------------------------------------
(***************************************************************************)
(* The slots of a 409.                                                     *)
(***************************************************************************)

\* The loop of free_slots_same_day never leaves the grid, the day or the present.
LEMMA CandidatesKeepRules ==
  ASSUME now \in Int, NEW a \in Asks, ValidTimes(a.start, a.end, now), NEW room,
         NEW t \in Candidates(room, a.start, a.end)
  PROVE  t \in Bookable(a)
<1> DEFINE d == DayOf(a.start)
           f == FirstStart(a.start)
           length == a.end - a.start
<1>1. a.start \in Int /\ a.end \in Int /\ length \in Int /\ length > 0
  BY AlternativesAssumption DEF ValidTimes
<1>2. /\ d \in Int /\ Opens(a.start) = OpensOn(d) /\ Closes(a.start) = ClosesOn(d)
      /\ OpensOn(d) \in Int /\ ClosesOn(d) \in Int /\ Aligned(OpensOn(d))
  BY <1>1, DayEncloses, OpensOfDay, OpensIsAligned
<1>3. f \in Int /\ Aligned(f) /\ OpensOn(d) <= f /\ FloorToSlot(now) <= f
  <2>1. FloorToSlot(now) \in Int /\ Aligned(FloorToSlot(now))
    BY PastSlotIsRest, FloorIsAligned
  <2>2. f = IF FloorToSlot(now) > OpensOn(d) THEN FloorToSlot(now) ELSE OpensOn(d)
    BY <1>2 DEF FirstStart
  <2> QED
    BY <1>2, <2>1, <2>2
<1>4. t \in Int /\ f <= t /\ t <= ClosesOn(d) - length /\ (t - f) % Slot = 0
  BY <1>1, <1>2, <1>3 DEF Candidates
<1>5. Aligned(t)
  BY <1>3, <1>4, StepIsAligned
<1>6. DayOf(t) = d
  <2>1. d * Day \in Int /\ d * Day <= Local(t) /\ Local(t) < d * Day + Day
    BY <1>1, <1>2, <1>3, <1>4, DayEncloses, Settings DEF OpensOn, ClosesOn, Local
  <2> QED
    BY <1>2, <1>4, <2>1, DayIs
<1>7. WithinHours(t, t + length)
  BY <1>1, <1>2, <1>3, <1>4, <1>6, OpensOfDay DEF WithinHours
<1>8. t \in OpensOn(d) .. ClosesOn(d)
  BY <1>1, <1>2, <1>3, <1>4
<1> QED
  BY <1>2, <1>3, <1>4, <1>5, <1>7, <1>8, PastSlotIsRest DEF Bookable, NotPast

\* What free_slots_same_day returns when all turns are over.
LEMMA FreeSlotsHandled ==
  ASSUME now \in Int, NEW a \in Asks, ValidTimes(a.start, a.end, now), NEW room
  PROVE  LET C == Candidates(room, a.start, a.end)
         IN  /\ C \subseteq Bookable(a) /\ C \subseteq Int
             /\ Handled(FreeSlots(room, a.start, a.end), C, Within(a, Day), a)
<1>1. a.start \in Int /\ Length(a) \in Int
  BY AlternativesAssumption DEF Length
<1>2. Candidates(room, a.start, a.end) \subseteq Bookable(a)
  BY CandidatesKeepRules
<1>3. Bookable(a) \subseteq Int
  BY DEF Bookable
<1> QED
  BY <1>1, <1>2, <1>3, Settings, GreedyHandles DEF FreeSlots, Length

LEMMA FreeSlotsKeepRules ==
  ASSUME now \in Int, NEW a \in Asks, ValidTimes(a.start, a.end, now), NEW room
  PROVE  FreeSlots(room, a.start, a.end) \subseteq Bookable(a)
  BY FreeSlotsHandled DEF Handled
-----------------------------------------------------------------------------
(***************************************************************************)
(* The inductive invariant.                                                *)
(***************************************************************************)

LEMMA EnterKeepsHours ==
  ASSUME OfficeTypeOK, \A b \in booked : InHours(b),
         NEW m \in [room : Rooms, start : Int, end : Int], Enter(m)
  PROVE  /\ booked' \subseteq [room : Rooms, start : Int, end : Int]
         /\ \A b \in booked' : InHours(b)
  BY DEF OfficeTypeOK, Enter, Verdict, ValidTimes, InHours

\* What others do keeps the types and the hours.
LEMMA OthersKeepHours ==
  ASSUME OfficeTypeOK, \A b \in booked : InHours(b), OthersWork
  PROVE  OfficeTypeOK' /\ \A b \in booked' : InHours(b)
<1>1. ASSUME NEW m \in Meetings, Book(m)
      PROVE  OfficeTypeOK' /\ \A b \in booked' : InHours(b)
  BY <1>1, EnterKeepsHours, OthersAssumption DEF Book, OfficeTypeOK
<1>2. ASSUME NEW m \in booked, Cancel(m)
      PROVE  OfficeTypeOK' /\ \A b \in booked' : InHours(b)
  BY <1>2 DEF Cancel, OfficeTypeOK
<1>3. ASSUME NEW r \in Rooms, UpdateRoom(r)
      PROVE  OfficeTypeOK' /\ \A b \in booked' : InHours(b)
  BY <1>3, RoomsAssumption DEF UpdateRoom, OfficeTypeOK
<1>4. CASE Tick
  BY <1>4, OthersAssumption DEF Tick, OfficeTypeOK
<1> QED
  BY <1>1, <1>2, <1>3, <1>4 DEF OthersWork

\* A session that has loaded nothing, one that has listed the rooms and one that has got one.
LEMMA KnownIsTyped ==
  /\ DOMAIN <<>> = {} /\ <<>> \in [DOMAIN <<>> -> Row]
  /\ OfficeTypeOK =>
       /\ DOMAIN Listing(<<>>) = OpenRooms /\ Listing(<<>>) \in [OpenRooms -> Row]
       /\ OpenRooms \subseteq Rooms
       /\ \A q \in Rooms : /\ DOMAIN [r \in {q} |-> row[r]] = {q}
                          /\ [r \in {q} |-> row[r]] \in [{q} -> Row]
<1>1. DOMAIN <<>> = {}
  OBVIOUS
<1>2. <<>> \in [DOMAIN <<>> -> Row]
  BY <1>1
<1>3. ASSUME OfficeTypeOK
      PROVE  DOMAIN Listing(<<>>) = OpenRooms /\ Listing(<<>>) \in [OpenRooms -> Row]
  BY <1>1, <1>3 DEF Listing, Seen, OpenRooms, OfficeTypeOK
<1> QED
  BY <1>1, <1>2, <1>3 DEF OpenRooms, OfficeTypeOK

LEMMA InitIndInv == Init => IndInv
<1> SUFFICES ASSUME Init PROVE IndInv
  OBVIOUS
<1> QED
  BY OthersAssumption, RoomsAssumption, KnownIsTyped
  DEF Init, OfficeInit, IndInv, OfficeTypeOK, RequestFollows, OffersKeepRules

LEMMA NextIndInv == IndInv /\ [Next]_vars => IndInv'
<1> SUFFICES ASSUME IndInv, [Next]_vars PROVE IndInv'
  OBVIOUS
<1> USE DEF IndInv
<1>0. clock \in Int /\ Asks \subseteq [room : Rooms, start : Int, end : Int]
  BY OthersAssumption, AlternativesAssumption DEF OfficeTypeOK
<1>1. CASE Arrive
  <2>1. PICK a \in Asks :
          /\ a.room \in OpenRooms /\ ValidTimes(a.start, a.end, clock) /\ ask' = a
          /\ known' = Listing(<<>>) \/ known' = [r \in {a.room} |-> row[r]]
    BY <1>1 DEF Arrive
  <2>2. /\ DOMAIN known' \subseteq Rooms /\ known' \in [DOMAIN known' -> Row]
        /\ ask'.room \in DOMAIN known'
    BY <1>0, <2>1, KnownIsTyped
  <2> QED
    BY <1>0, <1>1, <2>1, <2>2, AlternativesAssumption
    DEF Arrive, office, OfficeTypeOK, RequestFollows, OffersKeepRules
<1>2. CASE FindTaken
  BY <1>2 DEF FindTaken, office, OfficeTypeOK, RequestFollows, OffersKeepRules, Bookable
<1>3. CASE FindFree
  <2>0. DOMAIN known' \subseteq Rooms /\ known' \in [DOMAIN known' -> Row]
    BY <1>3, KnownIsTyped DEF FindFree
  <2>1. ask \in [room : Rooms, start : Int, end : Int] /\ InHours(ask)
    BY <1>0, <1>3 DEF FindFree, RequestFollows, ValidTimes, InHours
  <2>2. OfficeTypeOK' /\ \A b \in booked' : InHours(b)
    BY <1>3, <2>1 DEF FindFree, OfficeTypeOK
  <2> QED
    BY <1>3, <2>0, <2>2 DEF FindFree, RequestFollows, OffersKeepRules
<1>4. CASE ReadSlots
  <2>1. slots' \subseteq Bookable(ask) /\ now' = now /\ ask' = ask
    BY <1>4, FreeSlotsKeepRules DEF ReadSlots, RequestFollows
  <2>2. OffersKeepRules'
    BY <2>1 DEF OffersKeepRules, Bookable
  <2> QED
    BY <1>4, <2>2 DEF ReadSlots, office, OfficeTypeOK, RequestFollows
<1>5. CASE ReadRooms
  BY <1>5, KnownIsTyped DEF ReadRooms, office, OfficeTypeOK, RequestFollows, OffersKeepRules, Bookable
<1>6. CASE TakeSlot
  <2>1. PICK t \in slots :
          Enter([room |-> ask.room, start |-> t, end |-> t + (ask.end - ask.start)])
    BY <1>6 DEF TakeSlot
  <2>2. ask \in Asks /\ t \in Int
    <3>1. ask \in Asks /\ ask.start \in Int
      BY <1>0, <1>6 DEF TakeSlot, RequestFollows
    <3>2. Opens(ask.start) \in Int /\ Closes(ask.start) \in Int
      BY <3>1, DayEncloses, OpensOfDay, OpensIsAligned
    <3> QED
      BY <3>1, <3>2, AlternativesAssumption DEF OffersKeepRules, Bookable
  <2>3. [room |-> ask.room, start |-> t, end |-> t + (ask.end - ask.start)]
          \in [room : Rooms, start : Int, end : Int]
    BY <1>0, <2>2
  <2>4. OfficeTypeOK' /\ \A b \in booked' : InHours(b)
    BY <1>6, <2>1, <2>3, EnterKeepsHours DEF TakeSlot, OfficeTypeOK
  <2> QED
    BY <1>6, <2>4 DEF TakeSlot, RequestFollows, OffersKeepRules
<1>7. CASE Leave
  BY <1>7 DEF Leave, office, OfficeTypeOK, RequestFollows, OffersKeepRules
<1>8. CASE OthersWork /\ UNCHANGED request
  BY <1>8, OthersKeepHours DEF request, RequestFollows, OffersKeepRules, Bookable
<1>9. CASE UNCHANGED vars
  BY <1>9 DEF vars, office, request, OfficeTypeOK, RequestFollows, OffersKeepRules, Bookable
<1> QED
  BY <1>1, <1>2, <1>3, <1>4, <1>5, <1>6, <1>7, <1>8, <1>9 DEF Next

\* The inductive invariant holds: bookings lie within the hours of a day, and the request and the
\* slots it is offered keep the rules at the time the request was made.
THEOREM Invariance == Spec => []IndInv
  BY InitIndInv, NextIndInv, PTL DEF Spec

\* Every slot a 409 offers keeps the rules of validate_times, the horizon aside.
THEOREM OffersKeepRulesHolds == Spec => []OffersKeepRules
  BY Invariance, PTL DEF IndInv

\* The types; that the office keeps its own and the request its steps is in IndInv already.
LEMMA TypeStep == IndInv /\ TypeOK /\ [Next]_vars /\ IndInv' => TypeOK'
<1> SUFFICES ASSUME IndInv, TypeOK, [Next]_vars, IndInv' PROVE TypeOK'
  OBVIOUS
<1>1. (OfficeTypeOK /\ slots \subseteq Int)'
  BY DEF IndInv, RequestFollows, OffersKeepRules, Bookable
<1>2. now' \in MinClock .. MaxClock
  BY DEF IndInv, TypeOK, OfficeTypeOK, Next, vars, request, Arrive, FindTaken, FindFree, ReadSlots,
         ReadRooms, TakeSlot, Leave
<1>3. rooms' \in Seq(Rooms)
  <2>1. CASE ReadRooms
    <3>1. ask \in Asks
      BY <2>1 DEF IndInv, RequestFollows, ReadRooms
    <3> QED
      BY <2>1, <3>1, OfferedRoomsTyped DEF ReadRooms
  <2>2. rooms \in Seq(Rooms) /\ <<>> \in Seq(Rooms)
    BY DEF TypeOK
  <2>3. ReadRooms \/ rooms' = rooms \/ rooms' = <<>>
    BY DEF Next, vars, request, Arrive, FindTaken, FindFree, ReadSlots, TakeSlot, Leave
  <2> QED
    BY <2>1, <2>2, <2>3, Zenon
<1>4. verdict' \in {0, 201, 404, 409, 422}
  <2>1. \A m : Verdict(m) \in {201, 404, 409, 422}
    BY DEF Verdict
  <2>2. verdict' = verdict \/ verdict' = 0 \/ \E m : verdict' = Verdict(m)
    BY DEF Next, vars, request, Arrive, FindTaken, FindFree, ReadSlots, ReadRooms, TakeSlot, Leave
  <2>3. verdict \in {0, 201, 404, 409, 422}
    BY DEF TypeOK
  <2> QED
    BY <2>1, <2>2, <2>3
<1> QED
  BY <1>1, <1>2, <1>3, <1>4 DEF TypeOK, IndInv, RequestFollows

\* Every variable keeps its type; rooms is a sequence because the sort of free_rooms is one.
THEOREM TypeCorrect == Spec => []TypeOK
<1>1. Init => TypeOK
  BY OthersAssumption, RoomsAssumption, KnownIsTyped DEF Init, OfficeInit, TypeOK, OfficeTypeOK
<1> QED
  BY <1>1, TypeStep, Invariance, PTL DEF Spec
-----------------------------------------------------------------------------
(***************************************************************************)
(* What is offered is free, and nothing better is left out.                *)
(***************************************************************************)

\* A minute in common is what the test of the code finds.
LEMMA CommonMinute ==
  ASSUME NEW s \in Int, NEW e \in Int, NEW t \in Int, NEW u \in Int, s < e, t < u
  PROVE  (s .. e - 1) \cap (t .. u - 1) # {} <=> s < u /\ t < e
<1>1. ASSUME s < u, t < e PROVE (s .. e - 1) \cap (t .. u - 1) # {}
  <2>1. CASE s <= t
    BY <1>1, <2>1
  <2>2. CASE t < s
    BY <1>1, <2>2
  <2> QED
    BY <2>1, <2>2
<1> QED
  BY <1>1

\* Starts whose slots meet have a minute in common.
LEMMA SpansMeet ==
  ASSUME NEW o \in Int, NEW t \in Int, NEW l \in Int, l > 0, Meets(Span(t, l), Span(o, l))
  PROVE  Minutes(o, l) \cap Minutes(t, l) # {}
<1>1. o < t + l /\ t < o + l
  BY DEF Meets, Span
<1>2. o < o + l /\ t < t + l /\ o + l \in Int /\ t + l \in Int
  OBVIOUS
<1>3. (o .. (o + l) - 1) \cap (t .. (t + l) - 1) # {}
  BY <1>1, <1>2, CommonMinute
<1> QED
  BY <1>3 DEF Minutes

\* A slot is free by minutes when find_conflicts finds nothing.
LEMMA FreeIsNotBusy ==
  ASSUME OfficeTypeOK, \A b \in booked : InHours(b),
         NEW a, Length(a) \in Int, Length(a) > 0, NEW t \in Int
  PROVE  FreeAt(t, a) <=> ~Busy(a.room, Span(t, Length(a)))
<1> DEFINE u == t + Length(a)
<1>1. ASSUME NEW b \in booked
      PROVE  /\ b.start \in Int /\ b.end \in Int /\ b.start < b.end
             /\ Minutes(b.start, b.end - b.start) = b.start .. b.end - 1
             /\ Minutes(t, a.end - a.start) = t .. u - 1
  BY <1>1 DEF OfficeTypeOK, InHours, Minutes, Length
<1>2. ASSUME NEW b \in booked
      PROVE  Minutes(b.start, b.end - b.start) \cap Minutes(t, a.end - a.start) # {}
               <=> Meets(b, Span(t, Length(a)))
  <2>1. u \in Int /\ t < u
    OBVIOUS
  <2>2. (b.start .. b.end - 1) \cap (t .. u - 1) # {} <=> b.start < u /\ t < b.end
    <3> HIDE DEF u
    <3> QED
      BY <1>1, <2>1, CommonMinute
  <2>3. Meets(b, Span(t, Length(a))) <=> b.start < u /\ t < b.end
    BY DEF Meets, Span
  <2> QED
    BY <1>1, <2>2, <2>3
<1> QED
  BY <1>2 DEF FreeAt, Busy

\* The loop of free_slots_same_day leaves out no start of the day that is free and keeps the rules.
LEMMA BookableIsCandidate ==
  ASSUME OfficeTypeOK, \A b \in booked : InHours(b), now \in Int,
         NEW a \in Asks, ValidTimes(a.start, a.end, now), NEW t \in Bookable(a), FreeAt(t, a)
  PROVE  t \in Candidates(a.room, a.start, a.end) /\ t \in Within(a, Day)
<1> DEFINE d == DayOf(a.start)
           f == FirstStart(a.start)
           length == a.end - a.start
<1>1. /\ a.start \in Int /\ a.end \in Int /\ length \in Int /\ length > 0
      /\ Opens(a.start) <= a.start /\ a.end <= Closes(a.start)
  BY AlternativesAssumption DEF ValidTimes, WithinHours
<1>2. /\ d \in Int /\ Opens(a.start) = OpensOn(d) /\ Closes(a.start) = ClosesOn(d)
      /\ OpensOn(d) \in Int /\ ClosesOn(d) \in Int /\ Aligned(OpensOn(d))
  BY <1>1, DayEncloses, OpensOfDay, OpensIsAligned
<1>3. FloorToSlot(now) \in Int /\ Aligned(FloorToSlot(now))
  BY PastSlotIsRest, FloorIsAligned
<1>4. /\ t \in Int /\ OpensOn(d) <= t /\ t <= ClosesOn(d) /\ FloorToSlot(now) <= t
      /\ Aligned(t) /\ WithinHours(t, t + length)
  BY <1>2 DEF Bookable, NotPast
<1>5. f \in Int /\ f <= t /\ (t - f) % Slot = 0
  <2>1. f \in Int /\ f <= t /\ Aligned(f)
    BY <1>2, <1>3, <1>4 DEF FirstStart
  <2> HIDE DEF f
  <2>2. TzOffset \in Int /\ Slot \in Nat \ {0} /\ Local(t) \in Int /\ Local(f) \in Int
    BY <1>4, <2>1, Settings DEF Local
  <2>3. (Local(t) - Local(f)) % Slot = 0
    <3>1. Local(t) % Slot = 0 /\ Local(f) % Slot = 0
      BY <1>4, <2>1, PastSlotIsRest DEF Aligned
    <3> QED
      BY <2>2, <3>1, MultiplesSum
  <2>4. Local(t) - Local(f) = t - f
    BY <1>4, <2>1, <2>2 DEF Local
  <2> QED
    BY <2>1, <2>3, <2>4
<1>6. DayOf(t) = d
  <2>1. PICK m \in Int : m = d * Day
    BY <1>2, Settings
  <2>2. OpensOn(d) = m + WorkStart - TzOffset /\ ClosesOn(d) = m + WorkEnd - TzOffset
    BY <2>1 DEF OpensOn, ClosesOn
  <2>3. /\ WorkStart \in 0 .. Day - 1 /\ WorkEnd \in 0 .. Day - 1 /\ TzOffset \in Int
        /\ Day \in Nat
    BY Settings
  <2>4. m <= Local(t) /\ Local(t) < m + Day
    BY <1>4, <2>2, <2>3 DEF Local
  <2> QED
    BY <1>2, <1>4, <2>1, <2>4, DayIs
<1>7. t + length <= ClosesOn(d)
  BY <1>2, <1>4, <1>6, OpensOfDay DEF WithinHours
<1>8. ~Busy(a.room, Span(t, length))
  BY <1>1, <1>4, FreeIsNotBusy DEF Length
<1>9. t \in Candidates(a.room, a.start, a.end)
  BY <1>1, <1>2, <1>4, <1>5, <1>7, <1>8 DEF Candidates
<1>10. t \in Within(a, Day)
  <2>1. PICK m \in Int : m = d * Day
    BY <1>2, Settings
  <2>2. ClosesOn(d) - OpensOn(d) = WorkEnd - WorkStart
    BY <2>1, Settings DEF OpensOn, ClosesOn
  <2>3. ClosesOn(d) - OpensOn(d) < Day /\ Day \in Nat
    BY <2>2, Settings
  <2> QED
    BY <1>1, <1>2, <1>4, <2>3 DEF Within, Abs
<1> QED
  BY <1>9, <1>10

\* What the request knows when it reads its slots.
LEMMA WhenSlotsAreRead ==
  ASSUME IndInv, [Next]_vars, pc = "slots", pc' = "rooms"
  PROVE  /\ ask \in Asks /\ ValidTimes(ask.start, ask.end, now) /\ now \in Int
         /\ Length(ask) \in Int /\ Length(ask) > 0
         /\ slots' = FreeSlots(ask.room, ask.start, ask.end)
         /\ Handled(slots', Candidates(ask.room, ask.start, ask.end), Within(ask, Day), ask)
         /\ Candidates(ask.room, ask.start, ask.end) \subseteq Int
<1>1. ReadSlots
  BY DEF Next, vars, request, Arrive, FindTaken, FindFree, ReadRooms, TakeSlot, Leave
<1>2. ask \in Asks /\ ValidTimes(ask.start, ask.end, now) /\ now \in Int
  BY DEF IndInv, RequestFollows
<1>3. Length(ask) \in Int /\ Length(ask) > 0
  BY <1>2, AlternativesAssumption DEF Length, ValidTimes
<1>4. slots' = FreeSlots(ask.room, ask.start, ask.end)
  BY <1>1 DEF ReadSlots
<1>5. LET C == Candidates(ask.room, ask.start, ask.end)
      IN  C \subseteq Int /\ Handled(slots', C, Within(ask, Day), ask)
  BY <1>2, <1>4, FreeSlotsHandled, Zenon
<1> QED
  BY <1>2, <1>3, <1>4, <1>5

\* The slots of a 409 are real choices when they are read: free, and without a minute in common.
THEOREM OffersAreChoicesHolds == Spec => OffersAreChoices
<1>1. ASSUME IndInv, [Next]_vars, pc = "slots", pc' = "rooms"
      PROVE  /\ \A t \in slots' : FreeAt(t, ask)
             /\ \A s, t \in slots' : s < t => s + (ask.end - ask.start) <= t
  <2> DEFINE C == Candidates(ask.room, ask.start, ask.end)
             l == Length(ask)
  <2>1. /\ slots' \subseteq C /\ C \subseteq Int /\ l \in Int /\ l > 0
        /\ \A p, q \in slots' : p # q => ~Meets(Span(p, l), Span(q, l))
    BY <1>1, WhenSlotsAreRead DEF Handled
  <2>2. ASSUME NEW t \in slots' PROVE FreeAt(t, ask)
    <3>1. t \in Int /\ ~Busy(ask.room, Span(t, l))
      BY <2>1 DEF Candidates, Length
    <3> QED
      BY <1>1, <2>1, <3>1, FreeIsNotBusy DEF IndInv
  <2>3. ASSUME NEW s \in slots', NEW t \in slots', s < t PROVE s + l <= t
    BY <2>1, <2>3 DEF Meets, Span
  <2> QED
    BY <2>2, <2>3 DEF Length
<1>2. IndInv /\ [Next]_vars =>
        [pc = "slots" /\ pc' = "rooms" =>
           /\ \A t \in slots' : FreeAt(t, ask)
           /\ \A s, t \in slots' : s < t => s + (ask.end - ask.start) <= t]_vars
  BY <1>1
<1> QED
  BY Invariance, <1>2, PTL DEF Spec, OffersAreChoices

\* No bookable free slot is left out but for one that is nearer to the start asked for.
THEOREM NearestAreOfferedHolds == Spec => NearestAreOffered
<1> DEFINE Nearest ==
             LET offered == slots'
                 duration == ask.end - ask.start
             IN  \A t \in Bookable(ask) \ offered :
                   FreeAt(t, ask) =>
                     \/ \E o \in offered :
                          Before(o, t, ask) /\ Minutes(o, duration) \cap Minutes(t, duration) # {}
                     \/ /\ Cardinality(offered) = MaxAlternatives
                        /\ \A o \in offered : Before(o, t, ask)
<1>1. ASSUME IndInv, [Next]_vars, pc = "slots", pc' = "rooms",
             NEW t \in Bookable(ask) \ slots', FreeAt(t, ask)
      PROVE  \/ \E o \in slots' :
                  /\ Before(o, t, ask)
                  /\ Minutes(o, ask.end - ask.start) \cap Minutes(t, ask.end - ask.start) # {}
             \/ Cardinality(slots') = MaxAlternatives /\ \A o \in slots' : Before(o, t, ask)
  <2> DEFINE C == Candidates(ask.room, ask.start, ask.end)
             l == Length(ask)
  <2>1. /\ slots' \subseteq C /\ C \subseteq Int /\ l \in Int /\ l > 0
        /\ \A c \in (C \cap Within(ask, Day)) \ slots' : Reason(slots', c, ask)
    BY <1>1, WhenSlotsAreRead DEF Handled
  <2>2. t \in C \cap Within(ask, Day)
    BY <1>1, WhenSlotsAreRead, BookableIsCandidate DEF IndInv
  <2>3. Reason(slots', t, ask)
    BY <2>1, <2>2
  <2>4. ASSUME NEW o \in slots', Meets(Span(t, l), Span(o, l))
        PROVE  Minutes(o, ask.end - ask.start) \cap Minutes(t, ask.end - ask.start) # {}
    <3>1. o \in Int /\ t \in Int
      BY <2>1, <2>2
    <3>2. Minutes(o, l) \cap Minutes(t, l) # {}
      <4> HIDE DEF l
      <4> QED
        BY <2>1, <2>4, <3>1, SpansMeet
    <3> QED
      BY <3>2 DEF Length
  <2> QED
    BY <2>3, <2>4 DEF Reason
<1>2. IndInv /\ [Next]_vars => [pc = "slots" /\ pc' = "rooms" => Nearest]_vars
  BY <1>1
<1> QED
  BY Invariance, <1>2, PTL DEF Spec, NearestAreOffered

\* The rooms offered are the best of those that are free, by the capacities the session has.
THEOREM BestRoomsAreOfferedHolds == Spec => BestRoomsAreOffered
<1> DEFINE size(r) == Seen(known, r).capacity
           seats(r) == size(r) >= size(ask.room)
           off(r) == Abs(size(r) - size(ask.room))
           nobetter(q, r) == /\ seats(r) => seats(q)
                             /\ (seats(r) <=> seats(q)) => off(q) <= off(r)
           Best ==
             LET free == {r \in OpenRooms \ {ask.room} :
                            FreeAt(ask.start, [ask EXCEPT !.room = r])}
             IN  /\ ToSet(rooms') \subseteq free
                 /\ \A i, j \in DOMAIN rooms' : i < j =>
                      rooms'[i] # rooms'[j] /\ nobetter(rooms'[i], rooms'[j])
                 /\ \A r \in free \ ToSet(rooms') :
                      Len(rooms') = MaxAlternatives /\ \A s \in ToSet(rooms') : nobetter(s, r)
<1>1. ASSUME IndInv, [Next]_vars, pc = "rooms", pc' = "answered" PROVE Best
  <2>1. /\ rooms' \in RoomOffers(ask) /\ ask \in Asks /\ ValidTimes(ask.start, ask.end, now)
        /\ ask.room \in DOMAIN known /\ OfficeTypeOK
        /\ DOMAIN known \subseteq Rooms /\ known \in [DOMAIN known -> Row]
    <3>1. ReadRooms
      BY <1>1 DEF Next, vars, request, Arrive, FindTaken, FindFree, ReadSlots, TakeSlot, Leave
    <3> QED
      BY <1>1, <3>1 DEF ReadRooms, IndInv, RequestFollows
  <2> DEFINE S == FreeFor(ask)
             n == Cardinality(S)
             k == Offered(ask)
  <2>2. {r \in OpenRooms \ {ask.room} : FreeAt(ask.start, [ask EXCEPT !.room = r])} = S
    <3>1. ask.start \in Int /\ ask.end \in Int /\ Length(ask) \in Int /\ Length(ask) > 0
          /\ ask \in [room : Rooms, start : Int, end : Int]
      BY <2>1, AlternativesAssumption DEF ValidTimes, Length
    <3>2. ASSUME NEW r \in Rooms
          PROVE  FreeAt(ask.start, [ask EXCEPT !.room = r]) <=> ~Busy(r, ask)
      <4> DEFINE a == [ask EXCEPT !.room = r]
      <4>1. a.room = r /\ Length(a) = Length(ask)
        BY <3>1 DEF Length
      <4>2. FreeAt(ask.start, a) <=> ~Busy(r, Span(ask.start, Length(ask)))
        <5> HIDE DEF a
        <5> QED
          BY <1>1, <3>1, <4>1, FreeIsNotBusy DEF IndInv
      <4>3. Busy(r, Span(ask.start, Length(ask))) <=> Busy(r, ask)
        BY <3>1 DEF Busy, Meets, Span, Length
      <4> QED
        BY <4>2, <4>3
    <3>3. \A r \in Rooms : row[r].capacity >= 1
      BY <2>1 DEF OfficeTypeOK, Row
    <3> QED
      BY <3>2, <3>3 DEF FreeFor, RoomsFree, OpenRooms
  <2>3. PICK s : OfferBegins(s, ask, rooms')
    BY <2>1, OfferedRoomsAre, Zenon
  <2>4. /\ n \in Nat /\ k \in 0 .. n /\ S \subseteq Rooms /\ s \in [1 .. n -> S]
        /\ rooms' = [i \in 1 .. k |-> s[i]]
        /\ \A r \in S : \E i \in 1 .. n : s[i] = r
        /\ k = IF n < MaxAlternatives THEN n ELSE MaxAlternatives
    BY <2>1, <2>3, OfferedRoomsAre DEF OfferBegins, Offered
  <2>5. \A r \in Rooms : Seen(known, r) \in Row
    BY <2>1 DEF Seen, OfficeTypeOK
  <2>6. ASSUME NEW i \in 1 .. n, NEW j \in 1 .. n, i < j
        PROVE  s[i] # s[j] /\ nobetter(s[i], s[j])
    <3>1. ask.room \in Rooms /\ Seen(known, ask.room) = known[ask.room]
      BY <2>1 DEF Seen
    <3>2. /\ size(s[i]) \in Nat /\ size(s[j]) \in Nat /\ size(ask.room) \in Nat
      BY <2>3, <2>4, <2>5, <3>1 DEF Row
    <3>3. ~BetterRoom(size(ask.room), Seen(known, s[j]), Seen(known, s[i]))
      BY <2>3, <2>6, <3>1 DEF OfferBegins
    <3>4. s[i] # s[j]
      BY <2>3, <2>6 DEF OfferBegins
    <3> HIDE DEF S, n
    <3> QED
      BY <3>2, <3>3, <3>4 DEF BetterRoom, Abs
  <2> HIDE DEF S, n, k
  <2>7. ToSet(rooms') = {s[i] : i \in 1 .. k} /\ Len(rooms') = k
    <3>1. DOMAIN rooms' = 1 .. k /\ \A i \in 1 .. k : rooms'[i] = s[i]
      BY <2>3, <2>4
    <3>2. Len(rooms') = k
      BY <2>3, <2>4
    <3> QED
      BY <3>1, <3>2 DEF ToSet
  <2>8. ToSet(rooms') \subseteq S
    BY <2>3, <2>4, <2>7
  <2>9. \A i, j \in DOMAIN rooms' : i < j =>
          rooms'[i] # rooms'[j] /\ nobetter(rooms'[i], rooms'[j])
    BY <2>3, <2>4, <2>6
  <2>10. ASSUME NEW r \in S \ ToSet(rooms')
        PROVE  Len(rooms') = MaxAlternatives /\ \A q \in ToSet(rooms') : nobetter(q, r)
    <3>1. PICK j \in 1 .. n : s[j] = r
      BY <2>3, <2>4
    <3>2. j > k /\ k = MaxAlternatives
      BY <2>3, <2>4, <2>7, <2>10, <3>1
    <3> QED
      BY <2>3, <2>4, <2>6, <2>7, <3>1, <3>2
  <2> QED
    BY <2>2, <2>8, <2>9, <2>10
<1>2. IndInv /\ [Next]_vars => [pc = "rooms" /\ pc' = "answered" => Best]_vars
  BY <1>1
<1> QED
  BY Invariance, <1>2, PTL DEF Spec, BestRoomsAreOffered
-----------------------------------------------------------------------------
(***************************************************************************)
(* The schedule shows every booking once.                                  *)
(***************************************************************************)

\* A booking within its hours meets the working hours of its day and of no day around it.
LEMMA MeetsItsDay ==
  ASSUME NEW b \in [room : Rooms, start : Int, end : Int], InHours(b), NEW d \in Int
  PROVE  /\ Meets(b, [start |-> OpensOn(DayOf(b.start)), end |-> ClosesOn(DayOf(b.start))])
         /\ d \in {DayOf(b.start) - 1, DayOf(b.start) + 1} =>
              ~Meets(b, [start |-> OpensOn(d), end |-> ClosesOn(d)])
<1> DEFINE today == DayOf(b.start)
           midnight == today * Day
<1>1. today \in Int /\ midnight \in Int /\ b.start \in Int /\ b.end \in Int
  BY DayEncloses
<1>2. OpensOn(today) <= b.start /\ b.start < b.end /\ b.end <= ClosesOn(today)
  BY OpensOfDay DEF InHours, WithinHours
<1>3. /\ OpensOn(today) = midnight + WorkStart - TzOffset
      /\ ClosesOn(today) = midnight + WorkEnd - TzOffset
  BY DEF OpensOn, ClosesOn
<1>4. /\ ClosesOn(today - 1) = midnight - Day + WorkEnd - TzOffset
      /\ OpensOn(today + 1) = midnight + Day + WorkStart - TzOffset
  <2>1. (today - 1) * Day = midnight - Day /\ (today + 1) * Day = midnight + Day
    BY <1>1, Settings
  <2> QED
    BY <2>1 DEF OpensOn, ClosesOn
<1>5. ClosesOn(today - 1) <= b.start /\ b.end <= OpensOn(today + 1)
  <2> HIDE DEF midnight, today
  <2> QED
    BY <1>1, <1>2, <1>3, <1>4, Settings
<1>6. Meets(b, [start |-> OpensOn(today), end |-> ClosesOn(today)])
  <2> HIDE DEF today
  <2> QED
    BY <1>1, <1>2, <1>3, Settings DEF Meets
<1>7. /\ ~Meets(b, [start |-> OpensOn(today - 1), end |-> ClosesOn(today - 1)])
      /\ ~Meets(b, [start |-> OpensOn(today + 1), end |-> ClosesOn(today + 1)])
  <2> HIDE DEF today
  <2>1. ClosesOn(today - 1) \in Int /\ OpensOn(today + 1) \in Int
    BY <1>1, OpensIsAligned
  <2> QED
    BY <1>1, <1>5, <2>1 DEF Meets
<1> QED
  BY <1>6, <1>7

\* The working week of a day begins no later and ends no earlier than the day.
LEMMA WeekEncloses ==
  ASSUME NEW d \in Int
  PROVE  /\ WeekStart(d) \in Int /\ d \in WeekStart(d) .. WeekStart(d) + 6
         /\ OpensOn(WeekStart(d)) <= OpensOn(d) /\ ClosesOn(d) <= ClosesOn(WeekStart(d) + 6)
<1>1. PICK k \in 0 .. 6 : WeekStart(d) = d - k
  <2>1. d + Weekday0 \in Int /\ 7 \in Nat \ {0}
    BY TimelineAssumption
  <2>2. (d + Weekday0) % 7 \in 0 .. 6
    BY <2>1
  <2> QED
    BY <2>2 DEF WeekStart
<1>2. /\ (d - k) * Day = d * Day - k * Day /\ (d - k + 6) * Day = d * Day + (6 - k) * Day
      /\ k * Day >= 0 /\ (6 - k) * Day >= 0
      /\ d * Day \in Int /\ k * Day \in Int /\ (6 - k) * Day \in Int
  BY Settings
<1> QED
  BY <1>1, <1>2, Settings DEF OpensOn, ClosesOn

\* A booking of an open room is on the schedule of its day and of no day around it, in the view
\* of the day and in the view of the week.
THEOREM BookingsAreShownHolds == Spec => []BookingsAreShown
<1>1. ASSUME IndInv, NEW b \in booked, b.room \in OpenRooms
      PROVE  LET today == DayOf(b.start)
                 week == WeekStart(today) .. WeekStart(today) + 6
             IN  /\ {d \in today - 1 .. today + 1 : b \in DayRow(b.room, d)} = {today}
                 /\ {d \in week : b \in WeekRow(WeekRoom(b.room), today, d)} = {today}
  <2> DEFINE today == DayOf(b.start)
  <2>1. b \in [room : Rooms, start : Int, end : Int] /\ InHours(b) /\ today \in Int
    BY <1>1, DayEncloses DEF IndInv, OfficeTypeOK
  <2>2. ASSUME NEW d \in today - 1 .. today + 1
        PROVE  b \in DayRow(b.room, d) <=> d = today
    <3>1. d \in Int /\ (d = today \/ d \in {today - 1, today + 1})
      BY <2>1
    <3> QED
      BY <2>1, <3>1, MeetsItsDay DEF DayRow, Between
  <2>3. b \in Between(OpensOn(WeekStart(today)), ClosesOn(WeekStart(today) + 6))
    <3>1. /\ WeekStart(today) \in Int
          /\ OpensOn(WeekStart(today)) <= OpensOn(today)
          /\ ClosesOn(today) <= ClosesOn(WeekStart(today) + 6)
      BY <2>1, WeekEncloses
    <3>2. /\ OpensOn(WeekStart(today)) \in Int /\ OpensOn(today) \in Int
          /\ ClosesOn(today) \in Int /\ ClosesOn(WeekStart(today) + 6) \in Int
      BY <2>1, <3>1, OpensIsAligned
    <3>3. Meets(b, [start |-> OpensOn(today), end |-> ClosesOn(today)])
      BY <2>1, MeetsItsDay
    <3> QED
      BY <2>1, <3>1, <3>2, <3>3 DEF Between, Meets
  <2>4. \A d : b \in WeekRow(WeekRoom(b.room), today, d) <=> d = today
    BY <1>1, <2>3 DEF WeekRow, WeekRoom
  <2>5. today \in today - 1 .. today + 1 /\ today \in WeekStart(today) .. WeekStart(today) + 6
    BY <2>1, WeekEncloses
  <2> HIDE DEF today
  <2>6. {d \in today - 1 .. today + 1 : b \in DayRow(b.room, d)} = {today}
    BY <2>2, <2>5
  <2>7. {d \in WeekStart(today) .. WeekStart(today) + 6 :
           b \in WeekRow(WeekRoom(b.room), today, d)} = {today}
    BY <2>4, <2>5
  <2> QED
    BY <2>6, <2>7 DEF today
<1>2. IndInv => BookingsAreShown
  BY <1>1 DEF BookingsAreShown
<1> QED
  BY Invariance, <1>2, PTL
-----------------------------------------------------------------------------
(***************************************************************************)
(* The links of the schedule.                                              *)
(***************************************************************************)

\* The cell of an instant of a working day begins on the grid, and so does the next one.
LEMMA CellOfInstant ==
  ASSUME NEW d \in Int, NEW s \in OpensOn(d) .. ClosesOn(d) - 1
  PROVE  \E t \in Cells(d) : t <= s /\ s < t + Cell /\ Aligned(t + Cell)
<1> DEFINE o == OpensOn(d)
           rest == (s - o) % Cell
           t == s - rest
<1>1. o \in Int /\ ClosesOn(d) \in Int /\ Aligned(o) /\ s - o \in Nat
      /\ Cell \in Nat \ {0} /\ Cell % Slot = 0
  BY OpensIsAligned, TimelineAssumption
<1>2. rest \in 0 .. Cell - 1 /\ rest <= s - o
  <2>1. \A a \in Nat, n \in Nat \ {0} : a % n \in 0 .. n - 1 /\ a % n <= a
    OBVIOUS
  <2> HIDE DEF o
  <2> QED
    BY <1>1, <2>1
<1>3. (t - o) % Cell = 0
  <2>1. ((s - o) - ((s - o) % Cell)) % Cell = 0
    BY <1>1, MultipleBelow
  <2>2. t - o = (s - o) - rest
    <3> HIDE DEF o, rest
    <3> QED
      BY <1>1, <1>2
  <2> QED
    BY <2>1, <2>2, Zenon
<1>4. t \in o .. ClosesOn(d) - 1 /\ t <= s /\ s < t + Cell /\ t \in Int
  <2> HIDE DEF o, rest
  <2> QED
    BY <1>1, <1>2
<1>5. (t + Cell - o) % Slot = 0
  <2> HIDE DEF t, o
  <2>1. t - o \in Int /\ t + Cell - o = (t - o) + Cell
    BY <1>1, <1>4
  <2>2. (t - o) % Slot = 0
    BY <1>1, <1>3, <2>1, Settings, MultipleOfCoarser
  <2>3. ((t - o) + Cell) % Slot = 0
    BY <1>1, <2>1, <2>2, Settings, MultiplesSum
  <2> QED
    BY <2>1, <2>3, Zenon
<1>6. Aligned(t + Cell)
  <2> HIDE DEF t, o
  <2> QED
    BY <1>1, <1>4, <1>5, StepIsAligned
<1>7. t \in Cells(d)
  BY <1>3, <1>4 DEF Cells
<1> QED
  BY <1>4, <1>6, <1>7

\* Whatever can be booked now can be reached by a link: no start that validate_times accepts lies
\* in a cell that is shown as past.
THEOREM NoBookableStartWithoutLinkHolds == Spec => []NoBookableStartWithoutLink
<1>1. ASSUME IndInv, NEW d \in Days, NEW start \in OpensOn(d) .. ClosesOn(d),
             NEW end \in start .. ClosesOn(d), ValidTimes(start, end, clock)
      PROVE  \E t \in Cells(d) : t <= start /\ start < t + Cell /\ IsLink(t)
  <2>1. clock \in Int /\ d \in Int
    BY <1>1, OthersAssumption DEF IndInv, OfficeTypeOK, Days
  <2>2. start \in OpensOn(d) .. ClosesOn(d) - 1 /\ FloorToSlot(clock) <= start /\ start \in Int
    BY <1>1, <2>1, OpensIsAligned DEF ValidTimes, NotPast
  <2>3. PICK t \in Cells(d) : t <= start /\ start < t + Cell /\ Aligned(t + Cell)
    BY <2>1, <2>2, CellOfInstant
  <2>4. t + Cell \in Int
    BY <2>1, OpensIsAligned, TimelineAssumption DEF Cells
  <2>5. t + Cell > clock
    <3> SUFFICES ASSUME t + Cell <= clock PROVE FALSE
      BY <2>1, <2>4
    <3>1. t + Cell <= FloorToSlot(clock)
      BY <2>1, <2>3, <2>4, AlignedBelowFloor
    <3> QED
      BY <2>1, <2>2, <2>3, <2>4, <3>1, PastSlotIsRest
  <2> QED
    BY <2>3, <2>5 DEF IsLink
<1>2. IndInv => NoBookableStartWithoutLink
  BY <1>1 DEF NoBookableStartWithoutLink
<1> QED
  BY Invariance, <1>2, PTL

\* The end the form fills in for a start: later on the grid, by a slot at least and an hour at
\* most, and within the working day.
LEMMA FilledEndFits ==
  ASSUME NEW w \in WorkStart .. WorkEnd - 1, w % Slot = 0
  PROVE  /\ FilledEnd(w) \in WorkStart .. WorkEnd /\ FilledEnd(w) % Slot = 0
         /\ w + Slot <= FilledEnd(w) /\ FilledEnd(w) <= w + Hour
         /\ FilledEnd(w) < Day
<1>1. /\ Hour % Slot = 0 /\ WorkEnd % Slot = 0 /\ WorkEnd + Hour <= Day
      /\ w \in Nat /\ WorkEnd \in Nat /\ WorkStart \in Nat
  BY Settings, TimelineAssumption
<1>2. (w + Hour) % Day = w + Hour
  <2>1. w + Hour \in 0 .. Day - 1
    BY <1>1, Settings
  <2>2. \A a \in Nat, n \in Nat \ {0} : a < n => a % n = a
    OBVIOUS
  <2> QED
    BY <2>1, <2>2, Settings
<1>3. FilledEnd(w) = IF w + Hour < WorkEnd THEN w + Hour ELSE WorkEnd
  BY <1>2 DEF FilledEnd
<1>4. FilledEnd(w) % Slot = 0
  <2>1. Slot \in Nat \ {0} /\ w \in Int /\ Hour \in Int
    BY Settings
  <2>2. (w + Hour) % Slot = 0
    BY <1>1, <2>1, MultiplesSum
  <2> QED
    BY <1>1, <1>3, <2>2, Zenon
<1>5. FilledEnd(w) \in Nat /\ w < FilledEnd(w) /\ FilledEnd(w) <= WorkEnd
      /\ FilledEnd(w) <= w + Hour
  BY <1>1, <1>3, Settings
<1>6. w <= FilledEnd(w) - Slot
  <2> DEFINE gap == FilledEnd(w) - w
  <2>1. gap \in Nat \ {0} /\ gap % Slot = 0
    BY <1>1, <1>4, <1>5, Settings, MultiplesSum
  <2>2. gap >= Slot
    <3> HIDE DEF gap
    <3>1. \A a \in Nat, n \in Nat \ {0} : a < n => a % n = a
      OBVIOUS
    <3> QED
      BY <2>1, <3>1, Settings
  <2> QED
    BY <1>1, <1>5, <2>2, Settings
<1> QED
  BY <1>1, <1>4, <1>5, <1>6, Settings

\* The times of the form a link of a cell opens.
LEMMA LinkTimes ==
  ASSUME NEW room, NEW d \in Int, NEW t \in Cells(d)
  PROVE  /\ FromLink(room, t).start = t /\ FromLink(room, t).room = room
         /\ t \in Int /\ FromLink(room, t).end \in Int
         /\ TimeOfDay(t) \in TimeOptions(FALSE)
         /\ TimeOfDay(FromLink(room, t).end) \in TimeOptions(TRUE)
         /\ Aligned(t) /\ Aligned(FromLink(room, t).end)
         /\ WithinLength(t, FromLink(room, t).end) /\ t < FromLink(room, t).end
         /\ DayOf(t) = d /\ OpensOn(d) <= t /\ FromLink(room, t).end <= ClosesOn(d)
<1> DEFINE m == FromLink(room, t)
           midnight == d * Day
           w == Local(t) - midnight
           e == FilledEnd(w)
<1>1. /\ midnight \in Int /\ midnight % Slot = 0
      /\ OpensOn(d) = midnight + WorkStart - TzOffset
      /\ ClosesOn(d) = midnight + WorkEnd - TzOffset
      /\ OpensOn(d) \in Int /\ ClosesOn(d) \in Int /\ Aligned(OpensOn(d))
  BY OpensIsAligned, Settings DEF OpensOn, ClosesOn
<1>2. t \in Int /\ OpensOn(d) <= t /\ t < ClosesOn(d) /\ (t - OpensOn(d)) % Cell = 0
  BY <1>1 DEF Cells
<1>3. Aligned(t)
  <2>1. /\ Slot \in Nat \ {0} /\ Cell \in Nat \ {0} /\ Cell % Slot = 0
        /\ t - OpensOn(d) \in Int
    BY <1>1, <1>2, Settings, TimelineAssumption
  <2>2. (t - OpensOn(d)) % Slot = 0
    BY <1>2, <2>1, MultipleOfCoarser
  <2> QED
    BY <1>1, <1>2, <2>2, StepIsAligned
<1>4. /\ w \in WorkStart .. WorkEnd - 1 /\ Local(t) = midnight + w /\ w % Slot = 0
      /\ Local(t) \in Int
  <2>1. w \in WorkStart .. WorkEnd - 1 /\ Local(t) = midnight + w /\ Local(t) \in Int
    <3> HIDE DEF midnight
    <3> QED
      BY <1>1, <1>2, Settings DEF Local
  <2>2. Local(t) % Slot = 0
    BY <1>2, <1>3, PastSlotIsRest DEF Aligned
  <2>3. (Local(t) - midnight) % Slot = 0
    BY <1>1, <2>1, <2>2, Settings, MultiplesSum
  <2> QED
    BY <2>1, <2>3
<1>5. DayOf(t) = d /\ TimeOfDay(t) = w
  BY <1>1, <1>2, <1>4, Settings, DayIs
<1>6. /\ e \in WorkStart .. WorkEnd /\ e % Slot = 0
      /\ w + Slot <= e /\ e <= w + Hour /\ e < Day
  BY <1>4, FilledEndFits
<1>7. m.start = t /\ m.room = room /\ m.end = midnight + e - TzOffset /\ m.end \in Int
  <2>1. m.start = t /\ m.room = room /\ m.end = midnight + e - TzOffset
    BY <1>5 DEF FromLink, At
  <2> HIDE DEF midnight, e
  <2> QED
    BY <2>1, <1>1, <1>6, Settings
<1> HIDE DEF midnight, w, e
<1>8. Local(m.end) = midnight + e
  BY <1>1, <1>6, <1>7, Settings DEF Local
<1>9. TimeOfDay(m.end) = e
  <2>1. d * Day <= Local(m.end) /\ Local(m.end) < d * Day + Day
    BY <1>1, <1>6, <1>8, Settings DEF midnight
  <2>2. TimeOfDay(m.end) = Local(m.end) - midnight
    BY <2>1, <1>7, DayIs DEF midnight
  <2> QED
    BY <2>2, <1>1, <1>6, <1>8, Settings
<1>10. Aligned(m.end)
  <2>1. Slot \in Nat \ {0} /\ midnight \in Int /\ e \in Int
    BY <1>1, <1>6, Settings
  <2>2. (midnight + e) % Slot = 0
    BY <1>1, <1>6, <2>1, MultiplesSum
  <2> QED
    BY <2>2, <1>7, <1>8, PastSlotIsRest DEF Aligned
<1>11. m.end = t + (e - w) /\ m.end <= ClosesOn(d)
  BY <1>1, <1>2, <1>4, <1>6, <1>7, Settings DEF Local
<1>12. WithinLength(t, m.end) /\ t < m.end
  BY <1>2, <1>4, <1>6, <1>11, Settings, TimelineAssumption DEF WithinLength
<1>13. w \in TimeOptions(FALSE) /\ e \in TimeOptions(TRUE)
  <2>1. /\ WorkStart % Slot = 0 /\ WorkStart \in Int /\ WorkEnd \in Int
        /\ Slot \in Nat \ {0} /\ w \in Int /\ e \in Int
    BY <1>4, <1>6, Settings
  <2>2. (w - WorkStart) % Slot = 0 /\ (e - WorkStart) % Slot = 0
    BY <1>4, <1>6, <2>1, MultiplesSum
  <2>3. w \in WorkStart .. WorkEnd /\ w < WorkEnd /\ e \in WorkStart .. WorkEnd /\ e > WorkStart
    BY <1>4, <1>6, <2>1, Settings
  <2> QED
    BY <2>2, <2>3 DEF TimeOptions
<1> QED
  BY <1>2, <1>3, <1>5, <1>7, <1>9, <1>10, <1>11, <1>12, <1>13

\* A link keeps its word: the form it opens can be sent as it is, and is refused only because the
\* time is taken, beyond the horizon, or in a slot that is over while its cell is not.
THEOREM LinkIsBookingHolds == Spec => []LinkIsBooking
<1>1. ASSUME IndInv, NEW r \in OpenRooms, NEW d \in Days, NEW t \in Cells(d), IsLink(t)
      PROVE  KeepsWord(r, d, t)
  <2> DEFINE m == FromLink(r, t)
  <2>1. clock \in Int /\ d \in Int
    BY <1>1, OthersAssumption DEF IndInv, OfficeTypeOK, Days
  <2>2. /\ m.start = t /\ m.room = r /\ t \in Int /\ m.end \in Int
        /\ TimeOfDay(t) \in TimeOptions(FALSE) /\ TimeOfDay(m.end) \in TimeOptions(TRUE)
        /\ Aligned(t) /\ Aligned(m.end) /\ WithinLength(t, m.end) /\ t < m.end
        /\ DayOf(t) = d /\ OpensOn(d) <= t /\ m.end <= ClosesOn(d)
    BY <2>1, LinkTimes
  <2>3. WithinHours(t, m.end)
    BY <2>2, OpensOfDay DEF WithinHours
  <2>4. CASE ~ValidTimes(t, m.end, clock)
    <3>1. ~NotPast(t, clock) \/ ~WithinHorizon(t, clock)
      BY <2>2, <2>3, <2>4 DEF ValidTimes
    <3>2. t < FloorToSlot(clock) \/ t > clock + Horizon
      BY <2>1, <2>2, <3>1, PastSlotIsRest, Settings DEF NotPast, WithinHorizon
    <3>3. Verdict(m) = 422
      BY <1>1, <2>2, <2>4 DEF Verdict, OpenRooms
    <3>4. clock < t + Cell
      BY <1>1, <2>1, <2>2, TimelineAssumption DEF IsLink
    <3> QED
      BY <2>2, <3>2, <3>3, <3>4 DEF KeepsWord
  <2>5. CASE ValidTimes(t, m.end, clock) /\ Busy(r, m)
    <3>1. PICK b \in booked : b.room = r /\ Meets(b, m)
      BY <2>5 DEF Busy
    <3>2. b.start \in Int /\ b.end \in Int /\ OpensOn(d) \in Int /\ ClosesOn(d) \in Int
      BY <1>1, <2>1, OpensIsAligned DEF IndInv, OfficeTypeOK
    <3>3. b \in DayRow(r, d)
      BY <2>2, <3>1, <3>2 DEF DayRow, Between, Meets
    <3>4. Verdict(m) = 409
      BY <1>1, <2>2, <2>5 DEF Verdict, OpenRooms
    <3>5. \E c \in DayRow(r, d) : Meets(c, m)
      BY <3>1, <3>3, Zenon
    <3> QED
      BY <2>2, <3>4, <3>5 DEF KeepsWord
  <2>6. CASE ValidTimes(t, m.end, clock) /\ ~Busy(r, m)
    <3>1. Verdict(m) = 201
      BY <1>1, <2>2, <2>6 DEF Verdict, OpenRooms
    <3> QED
      BY <2>2, <3>1 DEF KeepsWord
  <2> QED
    BY <2>4, <2>5, <2>6
<1>2. IndInv => LinkIsBooking
  BY <1>1 DEF LinkIsBooking
<1> QED
  BY Invariance, <1>2, PTL
=============================================================================
