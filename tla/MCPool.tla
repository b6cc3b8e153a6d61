-------------------------------- MODULE MCPool --------------------------------
(***************************************************************************)
(* A pool of two connections, three phrases to take them, a visitor and a *)
(* booking.  The pool waits three ticks, an operation of a call two; the   *)
(* pause between attempts, short in the code, is stretched to one.         *)
(***************************************************************************)
EXTENDS Pool, TLC

CONSTANTS v1, b1, p1, p2, p3

MCVisitors == {v1}
MCReturners == {b1}
MCPhrases == {p1, p2, p3}

Symmetry == Permutations(MCPhrases)
=============================================================================
