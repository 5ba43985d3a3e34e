--------------------------- MODULE RefreshSessions ---------------------------
(***************************************************************************)
(* The sessions of one user, src/modules/auth/session-store.js, with the   *)
(* retry window of src/lib/refresh-replay.js: a session accepts one        *)
(* refresh token at a time and each refresh replaces it.                   *)
(*                                                                         *)
(* The JSON file runs a refresh as one atomic update.  MongoDB runs it as  *)
(* up to four operations, between which any other request may run.  The    *)
(* store is fixed when the server starts; a behaviour chooses it in Init.  *)
(*                                                                         *)
(* A response may be lost or a request repeated: any token that was sent   *)
(* may be presented at any later time, from any client.                    *)
(***************************************************************************)
EXTENDS Naturals, FiniteSets

CONSTANTS
    Sessions,
    Clients,        \* fingerprints of address and user agent
    Requests,       \* refreshes MongoDB serves at the same time
    MaxTokens,      \* bound: how many tokens a behaviour generates
    KeepPrevious,   \* rotated tokens a session remembers (10 in the code)
    None            \* no client, or no session

ASSUME RefreshAssumption ==
    /\ MaxTokens \in Nat
    /\ KeepPrevious \in Nat \ {0, 1}
    /\ None \notin Clients \cup Sessions

Tokens == 1..MaxTokens      \* in the order they are generated
NoToken == 0

VARIABLES
    store,      \* "json" or "mongo"
    generated,  \* how many tokens were generated
    sess,       \* sess[s]: the record of session s
    sent,       \* tokens that were sent to the user's clients
    req,        \* req[r]: a refresh MongoDB is serving
    exchanged,  \* exchanged[t]: the tokens sent in exchange for token t
    reuse,      \* tokens whose refresh was answered "session revoked for reuse"
    users       \* users[s]: the clients that presented a token of session s

vars == <<store, generated, sess, sent, req, exchanged, reuse, users>>

Revocation == {"none", "logout", "all", "refresh_token_reuse"}

\* previousHash, fingerprint and the sealed answer of the last rotation; open
\* tells whether a retry is within its grace and the seal can be opened.
Replay ==
    [of : Tokens \cup {NoToken}, by : Clients \cup {None},
     sealed : Tokens \cup {NoToken}, open : BOOLEAN]

NoReplay == [of |-> NoToken, by |-> None, sealed |-> NoToken, open |-> FALSE]

Session ==
    [state : {"absent", "stored", "deleted"}, current : Tokens \cup {NoToken},
     previous : SUBSET Tokens, revoked : Revocation, expired : BOOLEAN,
     replay : Replay]

Absent ==
    [state |-> "absent", current |-> NoToken, previous |-> {},
     revoked |-> "none", expired |-> FALSE, replay |-> NoReplay]

Request ==
    [step : {"idle", "found", "missed", "reused"}, token : Tokens \cup {NoToken},
     client : Clients \cup {None}, session : Sessions \cup {None},
     fresh : Tokens \cup {NoToken}]

TypeOK ==
    /\ store \in {"json", "mongo"}
    /\ generated \in 0..MaxTokens
    /\ sess \in [Sessions -> Session]
    /\ sent \subseteq Tokens
    /\ req \in [Requests -> Request]
    /\ exchanged \in [Tokens -> SUBSET Tokens]
    /\ reuse \subseteq Tokens
    /\ users \in [Sessions -> SUBSET Clients]

Idle ==
    [step |-> "idle", token |-> NoToken, client |-> None,
     session |-> None, fresh |-> NoToken]

Init ==
    /\ store \in {"json", "mongo"}
    /\ generated = 0
    /\ sess = [s \in Sessions |-> Absent]
    /\ sent = {}
    /\ req = [r \in Requests |-> Idle]
    /\ exchanged = [t \in Tokens |-> {}]
    /\ reuse = {}
    /\ users = [s \in Sessions |-> {}]

-----------------------------------------------------------------------------
Holds(s, t) == sess[s].state = "stored" /\ sess[s].current = t
Remembers(s, t) == sess[s].state = "stored" /\ t \in sess[s].previous

Live(rec) == rec.revoked = "none" /\ ~rec.expired

\* previousTokenHashes: the token rotated now and the newest of those before.
Remembered(previous, t) ==
    {p \in previous \cup {t} :
        Cardinality({q \in previous \cup {t} : q > p}) < KeepPrevious}

\* The session accepts the fresh token from now on.  A session that expired
\* after the refresh looked at it is extended all the same, unless its
\* absolute expiry is the one that passed.
Rotations(rec, t, c, fresh) ==
    {[rec EXCEPT !.current = fresh,
                 !.previous = Remembered(@, t),
                 !.expired = late,
                 !.replay = [of |-> t, by |-> c, sealed |-> fresh, open |-> TRUE]]
        : late \in {FALSE, rec.expired}}

\* Mutant of Replayable: the retry is compared with the token accepted now.
ReplayableCurrent(rec, t, c) ==
    /\ rec.current = t
    /\ rec.replay.by = c
    /\ rec.replay.open

\* replayWithinGrace and openRefreshReplay.
Replayable(rec, t, c) ==
    /\ rec.replay.of = t
    /\ rec.replay.by = c
    /\ rec.replay.open

Revoked(rec, reason) == [rec EXCEPT !.revoked = reason]

Presented(s, c) == users' = [users EXCEPT ![s] = @ \cup {c}]

TellReuse(t) == reuse' = reuse \cup {t}

Send(t, new) ==
    /\ sent' = sent \cup {new}
    /\ exchanged' = [exchanged EXCEPT ![t] = @ \cup {new}]

-----------------------------------------------------------------------------
(* createSession, for a login or a signup.                                 *)

Create(s) ==
    /\ sess[s].state = "absent"
    /\ generated < MaxTokens
    /\ generated' = generated + 1
    /\ sess' = [sess EXCEPT ![s] = [Absent EXCEPT !.state = "stored",
                                                  !.current = generated + 1]]
    /\ sent' = sent \cup {generated + 1}
    /\ UNCHANGED <<store, req, exchanged, reuse, users>>

-----------------------------------------------------------------------------
(* rotateSession on the JSON file.                                         *)

JsonRotate(s, t, c) ==
    /\ store = "json"
    /\ t \in sent
    /\ Holds(s, t)
    /\ Live(sess[s])
    /\ generated < MaxTokens
    /\ generated' = generated + 1
    /\ \E rec \in Rotations(sess[s], t, c, generated + 1) :
           sess' = [sess EXCEPT ![s] = rec]
    /\ Send(t, generated + 1)
    /\ Presented(s, c)
    /\ UNCHANGED <<store, req, reuse>>

JsonReplay(s, t, c) ==
    /\ store = "json"
    /\ t \in sent
    /\ Remembers(s, t)
    /\ sess[s].revoked = "none"
    /\ Replayable(sess[s], t, c)
    /\ Send(t, sess[s].replay.sealed)
    /\ Presented(s, c)
    /\ UNCHANGED <<store, generated, sess, req, reuse>>

\* A session that was revoked before is revoked again, for this reason.
JsonReuse(s, t, c) ==
    /\ store = "json"
    /\ t \in sent
    /\ Remembers(s, t)
    /\ sess[s].revoked # "none" \/ ~Replayable(sess[s], t, c)
    /\ sess' = [sess EXCEPT ![s] = Revoked(@, "refresh_token_reuse")]
    /\ TellReuse(t)
    /\ Presented(s, c)
    /\ UNCHANGED <<store, generated, sent, req, exchanged>>

\* "Refresh token is invalid or expired": the refusal changes nothing.
JsonInvalid(t) ==
    /\ store = "json"
    /\ t \in sent
    /\ \A s \in Sessions :
           /\ ~Remembers(s, t)
           /\ Holds(s, t) => ~Live(sess[s])
    /\ UNCHANGED vars

-----------------------------------------------------------------------------
(* rotateSession on MongoDB.                                               *)

\* The session that accepts the token is read, and a fresh token generated.
RefreshFound(r, s, t, c) ==
    /\ store = "mongo"
    /\ req[r].step = "idle"
    /\ t \in sent
    /\ Holds(s, t)
    /\ Live(sess[s])
    /\ generated < MaxTokens
    /\ generated' = generated + 1
    /\ req' = [req EXCEPT ![r] = [step |-> "found", token |-> t, client |-> c,
                                  session |-> s, fresh |-> generated + 1]]
    /\ Presented(s, c)
    /\ UNCHANGED <<store, sess, sent, exchanged, reuse>>

RefreshEnded(r, s, t) ==
    /\ store = "mongo"
    /\ req[r].step = "idle"
    /\ t \in sent
    /\ Holds(s, t)
    /\ ~Live(sess[s])
    /\ UNCHANGED vars

\* No session accepts the token.
RefreshMissed(r, t, c) ==
    /\ store = "mongo"
    /\ req[r].step = "idle"
    /\ t \in sent
    /\ \A s \in Sessions : ~Holds(s, t)
    /\ req' = [req EXCEPT ![r] = [Idle EXCEPT !.step = "missed", !.token = t,
                                              !.client = c]]
    /\ UNCHANGED <<store, generated, sess, sent, exchanged, reuse, users>>

\* Mutants of Swappable: the update names the session only; it does not ask
\* again whether the session was revoked meanwhile.
SwappableById(rec, t) == rec.state = "stored" /\ rec.revoked = "none"
SwappableRevoked(rec, t) == rec.state = "stored" /\ rec.current = t

\* The filter of the update that rotates the token.
Swappable(rec, t) ==
    /\ rec.state = "stored"
    /\ rec.current = t
    /\ rec.revoked = "none"

RefreshSwap(r) ==
    LET s == req[r].session
        t == req[r].token
    IN  /\ req[r].step = "found"
        /\ Swappable(sess[s], t)
        /\ \E rec \in Rotations(sess[s], t, req[r].client, req[r].fresh) :
               sess' = [sess EXCEPT ![s] = rec]
        /\ Send(t, req[r].fresh)
        /\ req' = [req EXCEPT ![r] = Idle]
        /\ UNCHANGED <<store, generated, reuse, users>>

\* Another refresh, or a revocation, came first.
RefreshOvertaken(r) ==
    /\ req[r].step = "found"
    /\ ~Swappable(sess[req[r].session], req[r].token)
    /\ req' = [req EXCEPT ![r] = [Idle EXCEPT !.step = "missed",
                                              !.token = req[r].token,
                                              !.client = req[r].client]]
    /\ UNCHANGED <<store, generated, sess, sent, exchanged, reuse, users>>

\* The session that remembers the token is read.
RefreshReplay(r, s) ==
    /\ req[r].step = "missed"
    /\ Remembers(s, req[r].token)
    /\ sess[s].revoked = "none"
    /\ Replayable(sess[s], req[r].token, req[r].client)
    /\ Send(req[r].token, sess[s].replay.sealed)
    /\ Presented(s, req[r].client)
    /\ req' = [req EXCEPT ![r] = Idle]
    /\ UNCHANGED <<store, generated, sess, reuse>>

RefreshReused(r, s) ==
    /\ req[r].step = "missed"
    /\ Remembers(s, req[r].token)
    /\ sess[s].revoked = "none"
    /\ ~Replayable(sess[s], req[r].token, req[r].client)
    /\ req' = [req EXCEPT ![r].step = "reused", ![r].session = s]
    /\ Presented(s, req[r].client)
    /\ UNCHANGED <<store, generated, sess, sent, exchanged, reuse>>

RefreshInvalid(r) ==
    /\ req[r].step = "missed"
    /\ \A s \in Sessions :
           Remembers(s, req[r].token) => sess[s].revoked # "none"
    /\ req' = [req EXCEPT ![r] = Idle]
    /\ UNCHANGED <<store, generated, sess, sent, exchanged, reuse, users>>

\* Mutant of Revocable: only if the token presented is the last one rotated.
RevocableUnmoved(rec, t) == rec.revoked = "none" /\ rec.replay.of = t

\* The filter of the update that revokes the session.
Revocable(rec, t) == rec.state = "stored" /\ rec.revoked = "none"

RefreshRevoke(r) ==
    LET s == req[r].session
    IN  /\ req[r].step = "reused"
        /\ sess' = [sess EXCEPT ![s] =
                       IF Revocable(@, req[r].token)
                       THEN Revoked(@, "refresh_token_reuse") ELSE @]
        /\ TellReuse(req[r].token)
        /\ req' = [req EXCEPT ![r] = Idle]
        /\ UNCHANGED <<store, generated, sent, exchanged, users>>

\* The process stops, or the database fails, in the middle of a refresh.
RefreshFail(r) ==
    /\ req[r].step # "idle"
    /\ req' = [req EXCEPT ![r] = Idle]
    /\ UNCHANGED <<store, generated, sess, sent, exchanged, reuse, users>>

-----------------------------------------------------------------------------
(* revokeSessionByRefreshToken, revokeAllSessionsForUser and               *)
(* pruneExpiredSessions.                                                   *)

Logout(s) ==
    /\ sess[s].state = "stored"
    /\ sess[s].current \in sent
    /\ sess[s].revoked = "none"
    /\ sess' = [sess EXCEPT ![s] = Revoked(@, "logout")]
    /\ UNCHANGED <<store, generated, sent, req, exchanged, reuse, users>>

\* The file revokes them in one update, MongoDB one document at a time.
RevokeAll(S) ==
    /\ S # {}
    /\ S \subseteq {s \in Sessions : sess[s].state = "stored" /\ sess[s].revoked = "none"}
    /\ IF store = "mongo" THEN Cardinality(S) = 1
       ELSE \A s \in Sessions \ S : sess[s].state # "stored" \/ sess[s].revoked # "none"
    /\ sess' = [s \in Sessions |-> IF s \in S THEN Revoked(sess[s], "all") ELSE sess[s]]
    /\ UNCHANGED <<store, generated, sent, req, exchanged, reuse, users>>

\* A week after it ended; a refresh takes far less than a week.  The record is
\* gone; its current token only tells which one it was.
Prune(s) ==
    /\ sess[s].state = "stored"
    /\ ~Live(sess[s])
    /\ \A r \in Requests : req[r].step = "idle"
    /\ sess' = [sess EXCEPT ![s] = [Absent EXCEPT !.state = "deleted",
                                                  !.current = sess[s].current]]
    /\ UNCHANGED <<store, generated, sent, req, exchanged, reuse, users>>

-----------------------------------------------------------------------------
(* Time: expiresAt, and the end of the retry window of the last rotation.  *)

Expire(s) ==
    /\ sess[s].state = "stored"
    /\ ~sess[s].expired
    /\ sess' = [sess EXCEPT ![s].expired = TRUE]
    /\ UNCHANGED <<store, generated, sent, req, exchanged, reuse, users>>

GraceEnds(s) ==
    /\ sess[s].replay.open
    /\ sess' = [sess EXCEPT ![s].replay.open = FALSE]
    /\ UNCHANGED <<store, generated, sent, req, exchanged, reuse, users>>

Next ==
    \/ \E s \in Sessions : Create(s)
    \/ \E s \in Sessions, t \in Tokens, c \in Clients : JsonRotate(s, t, c)
    \/ \E s \in Sessions, t \in Tokens, c \in Clients : JsonReplay(s, t, c)
    \/ \E s \in Sessions, t \in Tokens, c \in Clients : JsonReuse(s, t, c)
    \/ \E t \in Tokens : JsonInvalid(t)
    \/ \E r \in Requests, s \in Sessions, t \in Tokens, c \in Clients :
           RefreshFound(r, s, t, c)
    \/ \E r \in Requests, s \in Sessions, t \in Tokens : RefreshEnded(r, s, t)
    \/ \E r \in Requests, t \in Tokens, c \in Clients : RefreshMissed(r, t, c)
    \/ \E r \in Requests : RefreshSwap(r)
    \/ \E r \in Requests : RefreshOvertaken(r)
    \/ \E r \in Requests, s \in Sessions : RefreshReplay(r, s)
    \/ \E r \in Requests, s \in Sessions : RefreshReused(r, s)
    \/ \E r \in Requests : RefreshInvalid(r)
    \/ \E r \in Requests : RefreshRevoke(r)
    \/ \E r \in Requests : RefreshFail(r)
    \/ \E s \in Sessions : Logout(s)
    \/ \E S \in SUBSET Sessions : RevokeAll(S)
    \/ \E s \in Sessions : Prune(s)
    \/ \E s \in Sessions : Expire(s)
    \/ \E s \in Sessions : GraceEnds(s)

Spec == Init /\ [][Next]_vars

-----------------------------------------------------------------------------
(* What the sessions promise.                                              *)

\* "token replay never succeeds twice": however refreshes of one token are
\* repeated or overlap, all that are answered are answered with one successor.
OneSuccessor == \A t \in Tokens : Cardinality(exchanged[t]) <= 1

\* A client that is told its session was revoked for reuse can rely on it: the
\* session that gave out the token it presented is over.
ReuseEndsSession ==
    \A s \in Sessions, t \in Tokens :
        t \in reuse /\ Remembers(s, t) => sess[s].revoked # "none"

\* "Real clients can issue two refreshes concurrently or retry after losing
\* the first response": as long as one client presents the tokens of a session
\* that was rotated once, within the retry window, no step ends it for reuse.
DuplicateKeepsSession ==
    [][\A s \in Sessions :
          /\ sess[s].revoked = "none"
          /\ sess'[s].revoked = "refresh_token_reuse"
          /\ Cardinality(sess[s].previous) = 1
          /\ sess[s].replay.open
          => users'[s] # {sess[s].replay.by}]_vars

\* Sessions are chains of tokens that end for good.
Chain == INSTANCE TokenChain WITH
    current <- [s \in Sessions |-> sess[s].current],
    ended <- {s \in Sessions : sess[s].revoked # "none" \/ sess[s].state = "deleted"},
    spent <- {t \in Tokens : exchanged[t] # {}}

ImplementsTokenChain == Chain!Spec
=============================================================================
