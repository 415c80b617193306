--------------------------- MODULE MCRateLimiter ---------------------------
EXTENDS RateLimiter, TLC

Symmetric == Permutations(Threads)
=============================================================================
