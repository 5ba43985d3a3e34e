-------------------------- MODULE MCRefreshSessions --------------------------
EXTENDS RefreshSessions, TLC

CONSTANTS s1, s2, a, b, r1, r2

\* Sessions, refreshes and clients differ only by name.
MCSymmetry ==
    Permutations(Sessions) \cup Permutations(Requests) \cup Permutations(Clients)
=============================================================================
