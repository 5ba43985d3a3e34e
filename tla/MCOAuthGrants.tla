---------------------------- MODULE MCOAuthGrants ----------------------------
EXTENDS OAuthGrants, TLC

CONSTANTS c1, a1, k1, k2, g1, g2, u1, r1, r2

\* Codes, grants and requests differ only by name.
MCSymmetry ==
    Permutations(Codes) \cup Permutations(Grants) \cup Permutations(Requests)
=============================================================================
