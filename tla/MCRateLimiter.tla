--------------------------- MODULE MCRateLimiter ---------------------------
(***************************************************************************)
(* Two keys, two hits in a window of a second and a half.               *)
(***************************************************************************)
EXTENDS RateLimiter

CONSTANTS k1, k2

MCKeys == {k1, k2}
=============================================================================
