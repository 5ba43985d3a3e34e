-------------------------- MODULE MCDesktopJobsMongo --------------------------
(***************************************************************************)
(* A small broker on MongoDB: one account.  c1 carries a claimId; c2 is a  *)
(* desktop that moved to an environment no job is made for, so its claims  *)
(* only sweep.                                                             *)
(***************************************************************************)
EXTENDS DesktopJobsMongo

CONSTANTS u1, e1, e2, c1, c2, c3, s1, s2

MCClaimUser == [c \in Claims |-> u1]
MCClaimEnv == [c \in Claims |-> IF c = c2 THEN e2 ELSE e1]
MCRoutes == [c \in Claims |-> IF c = c1 THEN Servers ELSE {s1}]
=============================================================================
