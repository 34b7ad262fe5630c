--------------------------- MODULE MCRateLimiter ---------------------------
EXTENDS RateLimiter, TLC
CONSTANTS a1, a2
\* The clock of a2 is one tick ahead of a1's.
MCSkew == (a1 :> 0 @@ a2 :> 1)
=============================================================================
