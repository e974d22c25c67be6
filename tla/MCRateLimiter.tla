---------------------------- MODULE MCRateLimiter ----------------------------
EXTENDS RateLimiter, TLC

\* The initial CHOOSE of an address is never read: addresses are interchangeable.
Symmetry == Permutations(IPs)
=============================================================================
