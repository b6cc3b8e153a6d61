---------------------------- MODULE MCBookings ----------------------------
(***************************************************************************)
(* Small instances of Bookings.  An hour has four ticks and a slot two, so *)
(* that a clock in the middle of a slot exists; office time is one tick    *)
(* ahead of UTC; the working day is 1 .. 9 UTC.                            *)
(***************************************************************************)
EXTENDS Bookings, TLC

CONSTANTS c1, c2, c3, x1, x2, ann, bob, r1, r2

MCCreates == {c1, c2, c3}
MCTwoCreates == {c1, c2}
MCCancels == {x1, x2}
MCOneCancel == {x1}
MCUsers == {ann, bob}
MCOneUser == {bob}
MCAdmins == {bob}
MCRooms == {r1}

MCNobodyFails == {}
MCAllFail == {c1, c2, x1, x2}

\* the three creating requests are alike
Symmetry3 == Permutations(MCCreates)
Symmetry22 == Permutations(MCTwoCreates) \cup Permutations(MCCancels)

Ask(user, room, start, end) ==
  [user |-> user, room |-> room, start |-> start, end |-> end, titled |-> TRUE]

\* the running slot, the running and the next, and the next one
MCInputs == {Ask(ann, r1, 1, 3), Ask(bob, r1, 1, 5), Ask(ann, r1, 3, 5)}

\* everybody wants the same slot
MCSameInput == {Ask(bob, r1, 1, 3)}

\* two clashing bodies and one that breaks a rule
MCMixedInputs ==
  {Ask(ann, r1, 1, 3), Ask(bob, r1, 1, 5), [Ask(bob, r1, 1, 3) EXCEPT !.titled = FALSE]}
=============================================================================
