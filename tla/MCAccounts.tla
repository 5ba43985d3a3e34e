----------------------------- MODULE MCAccounts -----------------------------
(***************************************************************************)
(* Two requests at a time on one account, which is changed twice at most;  *)
(* or, on the same store, two requests at a time of two people who sign up *)
(* with one address.  A signup does not touch the accounts there are, so a *)
(* behaviour follows one of the two and leaves the other where it begins.  *)
(* A third kind of behaviour looks below the JSON store that both take for *)
(* granted: two updates and two readers of one of its documents.           *)
(***************************************************************************)
EXTENDS Accounts, Signup, JsonStore, TLC

CONSTANTS r1, r2, s1, s2, f1, f2, p1, p2, d1, d2, g1, g2

VARIABLE focus

MCRequests == {r1, r2}
MCSessions == {s1, s2}
MCForms == {f1, f2}
MCSignups == {p1, p2}
MCUpdates == {d1, d2}
MCReaders == {g1, g2}
MCSymmetry ==
    Permutations(MCRequests) \cup Permutations(MCSessions)
        \cup Permutations(MCForms) \cup Permutations(MCSignups)

MCEmailOf == [p \in Signups |-> "address"]
MCNameOf == [p \in Signups |-> "name"]

MCInit ==
    /\ focus \in {"account", "signup", "document"}
    /\ Init /\ SignupInit /\ DocInit
    /\ mongo <=> store = "mongo"
    /\ focus # "account" => ~legacy
    /\ focus = "document" => store = "json"

MCNext ==
    \/ focus = "account" /\ Next /\ UNCHANGED <<focus, signupVars, docVars>>
    \/ focus = "signup" /\ SignupNext /\ UNCHANGED <<focus, vars, docVars>>
    \/ focus = "document" /\ DocNext /\ UNCHANGED <<focus, vars, signupVars>>

MCSpec == MCInit /\ [][MCNext]_<<focus, vars, signupVars, docVars>>
=============================================================================
