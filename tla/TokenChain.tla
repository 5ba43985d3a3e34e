----------------------------- MODULE TokenChain -----------------------------
(***************************************************************************)
(* What a store of rotating refresh tokens promises, without its           *)
(* databases, requests, clients or clocks: a session is a chain of tokens. *)
(* Its current token is exchanged once, for the next one of the chain, and *)
(* a session that has ended issues no token again.                         *)
(***************************************************************************)
CONSTANTS
    Sessions,
    Tokens,     \* refresh tokens; each is issued once at most
    NoToken     \* the current token of a session that is not open

VARIABLES
    current,    \* current[s]: the token session s accepts next
    ended,      \* sessions that were revoked or dropped
    spent       \* tokens that were exchanged for their successor

Open(s) == current[s] # NoToken /\ s \notin ended

\* No token but a new one can become current: tokens are never reissued.
New(t) == t \in Tokens \ spent /\ \A s \in Sessions : current[s] # t

Init ==
    /\ current = [s \in Sessions |-> NoToken]
    /\ ended = {}
    /\ spent = {}

Start(s) ==
    /\ current[s] = NoToken
    /\ s \notin ended
    /\ \E t \in Tokens : New(t) /\ current' = [current EXCEPT ![s] = t]
    /\ UNCHANGED <<ended, spent>>

Exchange(s) ==
    /\ Open(s)
    /\ \E t \in Tokens : New(t) /\ current' = [current EXCEPT ![s] = t]
    /\ spent' = spent \cup {current[s]}
    /\ UNCHANGED ended

\* One request may end every session of its user.
End ==
    /\ ended' \subseteq Sessions
    /\ ended \subseteq ended'
    /\ \A s \in ended' \ ended : current[s] # NoToken
    /\ UNCHANGED <<current, spent>>

Next == End \/ \E s \in Sessions : Start(s) \/ Exchange(s)

Spec == Init /\ [][Next]_<<current, ended, spent>>
=============================================================================
