---------------------------- MODULE MCDesktopJobs ----------------------------
(***************************************************************************)
(* A small broker on its JSON file: one account, two desktops in the       *)
(* environment jobs are made for.  c1 carries a claimId, c2 does not.      *)
(***************************************************************************)
EXTENDS DesktopJobs

CONSTANTS u1, e1, c1, c2

MCClaimUser == [c \in Claims |-> u1]
MCClaimEnv == [c \in Claims |-> e1]
=============================================================================
