------------------------ MODULE RefreshSessionsProofs ------------------------
(***************************************************************************)
(* Safety of RefreshSessions on both stores, for any number of sessions,   *)
(* clients, requests and tokens: types, one successor per token, the       *)
(* refinement of TokenChain, and what a session is ended for reuse for.    *)
(*                                                                         *)
(* What a request generated before it is used (fresh) belongs to nobody    *)
(* yet, a token a session accepts was never exchanged, and the sealed      *)
(* answer of a session is what its last token was exchanged for.           *)
(***************************************************************************)
EXTENDS RefreshSessions, TLAPS, FiniteSetTheorems

Generated == 1..generated

SessionsOK ==
    \A s \in Sessions :
        /\ sess[s].state = "absent" =>
               sess[s].current = NoToken /\ sess[s].revoked = "none"
        /\ sess[s].state # "absent" => sess[s].current \in Generated
        /\ sess[s].replay.open => sess[s].replay.of # NoToken
        /\ sess[s].replay.of # NoToken =>
               exchanged[sess[s].replay.of] = {sess[s].replay.sealed}

OneHolder ==
    \A s, u \in Sessions :
        s # u /\ sess[s].current = sess[u].current => sess[s].current = NoToken

ExchangedOnce ==
    \A t \in Tokens :
        /\ exchanged[t] = {} \/ \E new \in Tokens : exchanged[t] = {new}
        /\ exchanged[t] # {} =>
               t \in Generated /\ \A s \in Sessions : sess[s].current # t

RequestOK(q) ==
    /\ q.step = "found" =>
           /\ q.token \in Tokens /\ q.client \in Clients /\ q.session \in Sessions
           /\ q.fresh \in Generated /\ q.fresh \in Tokens /\ exchanged[q.fresh] = {}
           /\ \A s \in Sessions : sess[s].current # q.fresh
    /\ q.step = "missed" => q.token \in Tokens /\ q.client \in Clients
    /\ q.step = "reused" => q.token \in Tokens /\ q.session \in Sessions

RequestsOK == \A r \in Requests : RequestOK(req[r])

FreshApart ==
    \A r, q \in Requests :
        r # q /\ req[r].step = "found" /\ req[q].step = "found"
            => req[r].fresh # req[q].fresh

RInv ==
    /\ TypeOK
    /\ SessionsOK /\ OneHolder /\ ExchangedOnce /\ RequestsOK /\ FreshApart

-----------------------------------------------------------------------------
(* Types of what the actions put together.                                 *)

LEMMA AbsentTyped == NoReplay \in Replay /\ Absent \in Session
BY DEF NoReplay, Replay, Absent, Session, Revocation

LEMMA IdleTyped == Idle \in Request /\ Idle.step = "idle"
BY DEF Idle, Request

LEMMA GeneratedTokens ==
    ASSUME RInv
    PROVE  /\ Generated \subseteq Tokens /\ NoToken \notin Tokens
           /\ generated < MaxTokens =>
                /\ generated + 1 \in Tokens /\ generated + 1 \notin Generated
                /\ generated + 1 \in 0..MaxTokens
                /\ \A t \in Generated : t \in 1..(generated + 1)
                /\ generated + 1 \in 1..(generated + 1)
BY RefreshAssumption DEF RInv, TypeOK, Generated, Tokens, NoToken

LEMMA RotationTyped ==
    ASSUME NEW rec \in Session, NEW t \in Tokens, NEW c \in Clients,
           NEW fresh \in Tokens, NEW new \in Rotations(rec, t, c, fresh)
    PROVE  /\ new \in Session
           /\ new.state = rec.state /\ new.revoked = rec.revoked
           /\ new.current = fresh
           /\ new.replay.of = t /\ new.replay.sealed = fresh
<1>1. Remembered(rec.previous, t) \subseteq Tokens
  BY DEF Remembered, Session
<1>2. [of |-> t, by |-> c, sealed |-> fresh, open |-> TRUE] \in Replay
  BY DEF Replay
<1>3. PICK late \in {FALSE, rec.expired} :
        new = [rec EXCEPT !.current = fresh,
                          !.previous = Remembered(@, t),
                          !.expired = late,
                          !.replay = [of |-> t, by |-> c, sealed |-> fresh, open |-> TRUE]]
  BY DEF Rotations
<1> QED
  BY <1>1, <1>2, <1>3 DEF Session

-----------------------------------------------------------------------------
\* The records change in ways that leave their tokens and their answers alone,
\* and requests end.
LEMMA RevisedKeeps ==
    ASSUME RInv, sess' \in [Sessions -> Session],
           \A s \in Sessions :
               /\ sess'[s].current = sess[s].current
               /\ sess'[s].state = "absent" <=> sess[s].state = "absent"
               /\ sess'[s].state = "absent" => sess'[s].revoked = "none"
               /\ sess'[s].replay.of \in {NoToken, sess[s].replay.of}
               /\ sess'[s].replay.of # NoToken =>
                      sess'[s].replay.sealed = sess[s].replay.sealed
               /\ sess'[s].replay.open => sess'[s].replay.of # NoToken,
           req' \in [Requests -> Request],
           \A r \in Requests : req'[r] = req[r] \/ req'[r].step = "idle",
           sent' \subseteq Tokens, reuse' \subseteq Tokens,
           users' \in [Sessions -> SUBSET Clients],
           UNCHANGED <<store, generated, exchanged>>
    PROVE  RInv'
<1>1. TypeOK'
  BY DEF RInv, TypeOK
<1>2. Generated' = Generated
  BY DEF Generated
<1>3. SessionsOK'
  BY <1>2 DEF RInv, SessionsOK
<1>4. OneHolder'
  BY DEF RInv, OneHolder
<1>5. ExchangedOnce'
  BY <1>2 DEF RInv, ExchangedOnce
<1>6. RequestsOK'
  BY ZenonT(60), <1>2 DEF RInv, RequestsOK, RequestOK
<1>7. FreshApart'
  BY DEF RInv, FreshApart
<1> QED
  BY <1>1, <1>3, <1>4, <1>5, <1>6, <1>7 DEF RInv

\* A request goes to a step it is fit for.
LEMMA RequestStepKeeps ==
    ASSUME RInv, NEW r \in Requests, NEW next \in Request,
           req' = [req EXCEPT ![r] = next],
           next.step # "found", RequestOK(next),
           users' \in [Sessions -> SUBSET Clients], reuse' \subseteq Tokens,
           UNCHANGED <<store, generated, sess, sent, exchanged>>
    PROVE  RInv'
<1>1. /\ req' \in [Requests -> Request] /\ req'[r] = next
      /\ \A q \in Requests \ {r} : req'[q] = req[q]
  BY DEF RInv, TypeOK
<1>2. TypeOK'
  BY <1>1 DEF RInv, TypeOK
<1>3. Generated' = Generated
  BY DEF Generated
<1>4. SessionsOK' /\ OneHolder' /\ ExchangedOnce'
  BY <1>3 DEF RInv, SessionsOK, OneHolder, ExchangedOnce
<1>5. RequestsOK'
  BY <1>1, <1>3 DEF RInv, RequestsOK, RequestOK
<1>6. FreshApart'
  BY <1>1 DEF RInv, FreshApart
<1> QED
  BY <1>2, <1>4, <1>5, <1>6 DEF RInv

\* A session that holds the token t exchanges it for a fresh one, which is new
\* or the one the request generated.
LEMMA RotateKeeps ==
    ASSUME RInv, NEW s \in Sessions, NEW t \in Tokens, NEW c \in Clients,
           NEW fresh \in Tokens,
           sess[s].state = "stored", sess[s].current = t,
           NEW rec \in Rotations(sess[s], t, c, fresh),
           sess' = [sess EXCEPT ![s] = rec], Send(t, fresh),
           exchanged[fresh] = {}, \A u \in Sessions : sess[u].current # fresh,
           generated' \in 0..MaxTokens, Generated \subseteq Generated',
           fresh \in Generated',
           req' \in [Requests -> Request],
           \A r \in Requests :
               \/ req'[r].step = "idle"
               \/ req'[r] = req[r] /\ (req[r].step = "found" => req[r].fresh # fresh),
           users' \in [Sessions -> SUBSET Clients],
           UNCHANGED <<store, reuse>>
    PROVE  RInv'
<1>1. sess[s] \in Session
  BY DEF RInv, TypeOK
<1>2. /\ rec \in Session
      /\ rec.state = "stored" /\ rec.current = fresh
      /\ rec.replay.of = t /\ rec.replay.sealed = fresh
  BY <1>1, RotationTyped
<1>3. /\ sess' \in [Sessions -> Session] /\ sess'[s] = rec
      /\ \A u \in Sessions \ {s} : sess'[u] = sess[u]
  BY <1>2 DEF RInv, TypeOK
<1>4. exchanged[t] = {} /\ t # fresh /\ t \in Generated /\ t # NoToken /\ fresh # NoToken
  <2>1. exchanged[t] = {} /\ t \in Generated
    BY DEF RInv, ExchangedOnce, SessionsOK
  <2> QED
    BY <2>1, GeneratedTokens
<1>5. /\ exchanged' \in [Tokens -> SUBSET Tokens] /\ exchanged'[t] = {fresh}
      /\ \A v \in Tokens \ {t} : exchanged'[v] = exchanged[v]
  BY <1>4 DEF Send, RInv, TypeOK
<1>6. TypeOK'
  BY <1>3, <1>5 DEF Send, RInv, TypeOK
<1>7. SessionsOK'
  <2> SUFFICES ASSUME NEW u \in Sessions
               PROVE  /\ sess'[u].state = "absent" =>
                             sess'[u].current = NoToken /\ sess'[u].revoked = "none"
                      /\ sess'[u].state # "absent" => sess'[u].current \in Generated'
                      /\ sess'[u].replay.open => sess'[u].replay.of # NoToken
                      /\ sess'[u].replay.of # NoToken =>
                             exchanged'[sess'[u].replay.of] = {sess'[u].replay.sealed}
    BY DEF SessionsOK
  <2>1. CASE u = s
    BY <2>1, <1>2, <1>3, <1>4, <1>5
  <2>2. CASE u # s
    <3>1. sess'[u] = sess[u]
      BY <2>2, <1>3
    <3>2. /\ sess[u].state = "absent" =>
                 sess[u].current = NoToken /\ sess[u].revoked = "none"
          /\ sess[u].state # "absent" => sess[u].current \in Generated
          /\ sess[u].replay.open => sess[u].replay.of # NoToken
          /\ sess[u].replay.of # NoToken =>
                 exchanged[sess[u].replay.of] = {sess[u].replay.sealed}
      BY DEF RInv, SessionsOK
    <3>3. sess[u].replay.of \in Tokens \cup {NoToken}
      BY DEF RInv, TypeOK, Session, Replay
    <3>4. sess[u].replay.of # t
      BY <3>2, <1>4
    <3> QED
      BY ZenonT(60), <3>1, <3>2, <3>3, <3>4, <1>5
  <2> QED
    BY <2>1, <2>2
<1>8. OneHolder'
  BY <1>2, <1>3 DEF RInv, OneHolder
<1>9. ExchangedOnce'
  <2> SUFFICES ASSUME NEW v \in Tokens
               PROVE  /\ exchanged'[v] = {} \/ \E new \in Tokens : exchanged'[v] = {new}
                      /\ exchanged'[v] # {} =>
                            v \in Generated' /\ \A u \in Sessions : sess'[u].current # v
    BY DEF ExchangedOnce
  <2>1. CASE v = t
    <3>1. \A u \in Sessions \ {s} : sess[u].current # t
      BY <1>4 DEF RInv, OneHolder
    <3> QED
      BY <2>1, <3>1, <1>2, <1>3, <1>4, <1>5
  <2>2. CASE v # t
    <3>1. exchanged'[v] = exchanged[v]
      BY <2>2, <1>5
    <3>2. exchanged[v] # {} => v # fresh
      OBVIOUS
    <3> QED
      BY <3>1, <3>2, <1>2, <1>3 DEF RInv, ExchangedOnce
  <2> QED
    BY <2>1, <2>2
<1>10. RequestsOK'
  <2> SUFFICES ASSUME NEW r \in Requests PROVE RequestOK(req[r])'
    BY DEF RequestsOK
  <2>1. CASE req'[r].step = "idle"
    BY <2>1 DEF RequestOK
  <2>2. CASE req'[r] = req[r] /\ (req[r].step = "found" => req[r].fresh # fresh)
    <3>1. RequestOK(req[r])
      BY DEF RInv, RequestsOK
    <3>2. req[r].step = "found" => req[r].fresh # t
      BY <3>1 DEF RequestOK
    <3> QED
      BY <2>2, <3>1, <3>2, <1>2, <1>3, <1>5 DEF RequestOK
  <2> QED
    BY <2>1, <2>2
<1>11. FreshApart'
  BY DEF RInv, FreshApart
<1> QED
  BY <1>6, <1>7, <1>8, <1>9, <1>10, <1>11 DEF RInv

-----------------------------------------------------------------------------
\* Each action keeps the invariant.

LEMMA CreateKeeps ==
    ASSUME RInv, NEW s \in Sessions, Create(s)
    PROVE  RInv'
<1> DEFINE fresh == generated + 1
           rec == [Absent EXCEPT !.state = "stored", !.current = fresh]
<1>1. /\ fresh \in Tokens /\ fresh \notin Generated /\ fresh \in Generated'
      /\ generated' \in 0..MaxTokens /\ Generated \subseteq Generated'
      /\ fresh # NoToken
  BY GeneratedTokens DEF Create, Generated
<1>2. /\ rec \in Session /\ rec.state = "stored" /\ rec.current = fresh
      /\ ~rec.replay.open /\ rec.replay.of = NoToken
  BY <1>1, AbsentTyped DEF Absent, NoReplay, Session
<1> HIDE DEF rec, fresh
<1>3. sess' = [sess EXCEPT ![s] = rec] /\ sent' = sent \cup {fresh}
  BY DEF Create, rec, fresh
<1>4. /\ sess' \in [Sessions -> Session] /\ sess'[s] = rec
      /\ \A u \in Sessions \ {s} : sess'[u] = sess[u]
  BY <1>2, <1>3 DEF RInv, TypeOK
<1>5. exchanged[fresh] = {} /\ \A u \in Sessions : sess[u].current # fresh
  BY <1>1 DEF RInv, ExchangedOnce, SessionsOK
<1>6. TypeOK'
  BY <1>1, <1>3, <1>4 DEF Create, RInv, TypeOK
<1>7. SessionsOK'
  BY <1>1, <1>2, <1>4 DEF Create, RInv, SessionsOK
<1>8. OneHolder'
  BY <1>2, <1>4, <1>5 DEF RInv, OneHolder
<1>9. ExchangedOnce'
  BY <1>1, <1>2, <1>4, <1>5 DEF Create, RInv, ExchangedOnce
<1>10. RequestsOK'
  <2> SUFFICES ASSUME NEW r \in Requests PROVE RequestOK(req[r])'
    BY DEF RequestsOK
  <2>1. RequestOK(req[r]) /\ req' = req /\ exchanged' = exchanged
    BY DEF RInv, RequestsOK, Create
  <2>2. req[r].step = "found" => req[r].fresh # fresh
    BY <2>1, <1>1 DEF RequestOK
  <2> QED
    BY <2>1, <2>2, <1>1, <1>2, <1>4 DEF RequestOK
<1>11. FreshApart'
  BY DEF Create, RInv, FreshApart
<1> QED
  BY <1>6, <1>7, <1>8, <1>9, <1>10, <1>11 DEF RInv

LEMMA PresentedTyped ==
    ASSUME RInv, NEW s \in Sessions, NEW c \in Clients, Presented(s, c)
    PROVE  users' \in [Sessions -> SUBSET Clients]
BY DEF Presented, RInv, TypeOK

LEMMA JsonRotateKeeps ==
    ASSUME RInv, NEW s \in Sessions, NEW t \in Tokens, NEW c \in Clients,
           JsonRotate(s, t, c)
    PROVE  RInv'
<1> DEFINE fresh == generated + 1
<1>1. /\ fresh \in Tokens /\ fresh \notin Generated /\ fresh \in Generated'
      /\ generated' \in 0..MaxTokens /\ Generated \subseteq Generated'
      /\ fresh # NoToken
  BY GeneratedTokens DEF JsonRotate, Generated
<1>2. PICK rec \in Rotations(sess[s], t, c, fresh) : sess' = [sess EXCEPT ![s] = rec]
  BY DEF JsonRotate
<1>3. Send(t, fresh) /\ UNCHANGED <<store, req, reuse>>
  BY DEF JsonRotate
<1> HIDE DEF fresh
<1>4. exchanged[fresh] = {} /\ \A u \in Sessions : sess[u].current # fresh
  BY <1>1 DEF RInv, ExchangedOnce, SessionsOK
<1>5. \A r \in Requests : req[r].step = "found" => req[r].fresh # fresh
  BY <1>1 DEF RInv, RequestsOK, RequestOK
<1>6. req' \in [Requests -> Request] /\ sess[s].state = "stored" /\ sess[s].current = t
  BY <1>3 DEF JsonRotate, Holds, RInv, TypeOK
<1>7. users' \in [Sessions -> SUBSET Clients]
  BY PresentedTyped DEF JsonRotate
<1> QED
  BY <1>1, <1>2, <1>3, <1>4, <1>5, <1>6, <1>7, RotateKeeps

\* A retry is sent the token its first attempt was exchanged for.
LEMMA SealedSent ==
    ASSUME RInv, NEW s \in Sessions, NEW t \in Tokens, NEW c,
           Replayable(sess[s], t, c), Send(t, sess[s].replay.sealed)
    PROVE  sent' \subseteq Tokens /\ exchanged' = exchanged
<1>1. exchanged[t] = {sess[s].replay.sealed} /\ exchanged \in [Tokens -> SUBSET Tokens]
  BY GeneratedTokens DEF Replayable, RInv, TypeOK, SessionsOK
<1>2. exchanged' = [exchanged EXCEPT ![t] = exchanged[t]]
  BY <1>1 DEF Send
<1>3. sess[s].replay.sealed \in Tokens
  BY <1>1
<1> QED
  BY <1>1, <1>2, <1>3 DEF Send, RInv, TypeOK

LEMMA UnrevisedKeeps ==
    ASSUME RInv, req' \in [Requests -> Request],
           \A r \in Requests : req'[r] = req[r] \/ req'[r].step = "idle",
           sent' \subseteq Tokens, reuse' \subseteq Tokens,
           users' \in [Sessions -> SUBSET Clients],
           UNCHANGED <<store, generated, sess, exchanged>>
    PROVE  RInv'
<1>1. sess' \in [Sessions -> Session]
  BY DEF RInv, TypeOK
<1>2. \A s \in Sessions :
        /\ sess'[s].current = sess[s].current
        /\ sess'[s].state = "absent" <=> sess[s].state = "absent"
        /\ sess'[s].state = "absent" => sess'[s].revoked = "none"
        /\ sess'[s].replay.of \in {NoToken, sess[s].replay.of}
        /\ sess'[s].replay.of # NoToken =>
               sess'[s].replay.sealed = sess[s].replay.sealed
        /\ sess'[s].replay.open => sess'[s].replay.of # NoToken
  BY DEF RInv, SessionsOK
<1> QED
  BY <1>1, <1>2, RevisedKeeps

\* One record is revised.
LEMMA RecordKeeps ==
    ASSUME RInv, NEW s \in Sessions, NEW rec \in Session,
           sess' = [sess EXCEPT ![s] = rec],
           rec.current = sess[s].current,
           rec.state = "absent" <=> sess[s].state = "absent",
           rec.state = "absent" => rec.revoked = "none",
           rec.replay.of \in {NoToken, sess[s].replay.of},
           rec.replay.of # NoToken => rec.replay.sealed = sess[s].replay.sealed,
           rec.replay.open => rec.replay.of # NoToken,
           req' \in [Requests -> Request],
           \A r \in Requests : req'[r] = req[r] \/ req'[r].step = "idle",
           reuse' \subseteq Tokens, users' \in [Sessions -> SUBSET Clients],
           UNCHANGED <<store, generated, sent, exchanged>>
    PROVE  RInv'
<1>1. /\ sess' \in [Sessions -> Session] /\ sess'[s] = rec
      /\ \A u \in Sessions \ {s} : sess'[u] = sess[u]
  BY DEF RInv, TypeOK
<1>2. \A u \in Sessions :
        /\ sess'[u].current = sess[u].current
        /\ sess'[u].state = "absent" <=> sess[u].state = "absent"
        /\ sess'[u].state = "absent" => sess'[u].revoked = "none"
        /\ sess'[u].replay.of \in {NoToken, sess[u].replay.of}
        /\ sess'[u].replay.of # NoToken =>
               sess'[u].replay.sealed = sess[u].replay.sealed
        /\ sess'[u].replay.open => sess'[u].replay.of # NoToken
  BY <1>1 DEF RInv, SessionsOK
<1>3. sent' \subseteq Tokens
  BY DEF RInv, TypeOK
<1> QED
  BY <1>1, <1>2, <1>3, RevisedKeeps

LEMMA RevokedRecord ==
    ASSUME RInv, NEW s \in Sessions, NEW reason \in Revocation
    PROVE  /\ Revoked(sess[s], reason) \in Session
           /\ Revoked(sess[s], reason).current = sess[s].current
           /\ Revoked(sess[s], reason).state = sess[s].state
           /\ Revoked(sess[s], reason).replay = sess[s].replay
           /\ Revoked(sess[s], reason).revoked = reason
<1>1. sess[s] \in Session
  BY DEF RInv, TypeOK
<1> QED
  BY <1>1 DEF Revoked, Session

LEMMA RevokeKeeps ==
    ASSUME RInv, NEW s \in Sessions, NEW reason \in Revocation,
           sess[s].state # "absent",
           sess' = [sess EXCEPT ![s] = Revoked(sess[s], reason)],
           req' \in [Requests -> Request],
           \A r \in Requests : req'[r] = req[r] \/ req'[r].step = "idle",
           reuse' \subseteq Tokens, users' \in [Sessions -> SUBSET Clients],
           UNCHANGED <<store, generated, sent, exchanged>>
    PROVE  RInv'
<1> DEFINE rec == Revoked(sess[s], reason)
<1>1. /\ rec \in Session /\ rec.current = sess[s].current
      /\ rec.state = sess[s].state /\ rec.replay = sess[s].replay
  BY RevokedRecord
<1>2. rec.replay.open => rec.replay.of # NoToken
  BY <1>1 DEF RInv, SessionsOK
<1> HIDE DEF rec
<1>3. sess' = [sess EXCEPT ![s] = rec]
  BY DEF rec
<1> QED
  BY <1>1, <1>2, <1>3, RecordKeeps

LEMMA JsonKeeps ==
    ASSUME RInv, NEW s \in Sessions, NEW t \in Tokens, NEW c \in Clients,
           JsonReplay(s, t, c) \/ JsonReuse(s, t, c)
    PROVE  RInv'
<1>1. users' \in [Sessions -> SUBSET Clients]
  BY PresentedTyped DEF JsonReplay, JsonReuse
<1>2. req' \in [Requests -> Request] /\ \A r \in Requests : req'[r] = req[r]
  BY DEF JsonReplay, JsonReuse, RInv, TypeOK
<1>3. CASE JsonReplay(s, t, c)
  <2>1. sent' \subseteq Tokens /\ exchanged' = exchanged
    BY <1>3, SealedSent DEF JsonReplay
  <2>2. reuse' \subseteq Tokens /\ UNCHANGED <<store, generated, sess>>
    BY <1>3 DEF JsonReplay, RInv, TypeOK
  <2> QED
    BY <2>1, <2>2, <1>1, <1>2, UnrevisedKeeps
<1>4. CASE JsonReuse(s, t, c)
  <2>1. reuse' \subseteq Tokens
    BY <1>4 DEF JsonReuse, TellReuse, RInv, TypeOK
  <2>2. /\ sess' = [sess EXCEPT ![s] = Revoked(sess[s], "refresh_token_reuse")]
        /\ sess[s].state # "absent"
        /\ UNCHANGED <<store, generated, sent, exchanged>>
    BY <1>4 DEF JsonReuse, Remembers
  <2>3. "refresh_token_reuse" \in Revocation
    BY DEF Revocation
  <2> QED
    BY <2>1, <2>2, <2>3, <1>1, <1>2, RevokeKeeps
<1> QED
  BY <1>3, <1>4

LEMMA RefreshFoundKeeps ==
    ASSUME RInv, NEW r \in Requests, NEW s \in Sessions, NEW t \in Tokens,
           NEW c \in Clients, RefreshFound(r, s, t, c)
    PROVE  RInv'
<1> DEFINE fresh == generated + 1
           next == [step |-> "found", token |-> t, client |-> c,
                    session |-> s, fresh |-> fresh]
<1>1. /\ fresh \in Tokens /\ fresh \notin Generated /\ fresh \in Generated'
      /\ generated' \in 0..MaxTokens /\ Generated \subseteq Generated'
      /\ fresh # NoToken
  BY GeneratedTokens DEF RefreshFound, Generated
<1>2. /\ next \in Request /\ next.step = "found" /\ next.token = t /\ next.client = c
      /\ next.session = s /\ next.fresh = fresh
  BY <1>1 DEF Request
<1> HIDE DEF next, fresh
<1>3. req' = [req EXCEPT ![r] = next]
  BY DEF RefreshFound, next, fresh
<1>4. /\ req' \in [Requests -> Request] /\ req'[r] = next
      /\ \A q \in Requests \ {r} : req'[q] = req[q]
  BY <1>2, <1>3 DEF RInv, TypeOK
<1>5. exchanged[fresh] = {} /\ \A u \in Sessions : sess[u].current # fresh
  BY <1>1 DEF RInv, ExchangedOnce, SessionsOK
<1>6. users' \in [Sessions -> SUBSET Clients]
  BY PresentedTyped DEF RefreshFound
<1>7. UNCHANGED <<store, sess, sent, exchanged, reuse>>
  BY DEF RefreshFound
<1>8. TypeOK'
  BY <1>1, <1>4, <1>6, <1>7 DEF RInv, TypeOK
<1>9. SessionsOK' /\ OneHolder' /\ ExchangedOnce'
  BY <1>1, <1>7 DEF RInv, SessionsOK, OneHolder, ExchangedOnce
<1>10. RequestsOK'
  BY <1>1, <1>2, <1>4, <1>5, <1>7 DEF RInv, RequestsOK, RequestOK
<1>11. FreshApart'
  BY <1>1, <1>2, <1>4 DEF RInv, FreshApart, RequestsOK, RequestOK
<1> QED
  BY <1>8, <1>9, <1>10, <1>11 DEF RInv

LEMMA EndKeeps ==
    ASSUME RInv, NEW r \in Requests, req' = [req EXCEPT ![r] = Idle]
    PROVE  /\ req' \in [Requests -> Request]
           /\ \A q \in Requests : req'[q] = req[q] \/ req'[q].step = "idle"
BY IdleTyped DEF RInv, TypeOK

LEMMA RefreshSwapKeeps ==
    ASSUME RInv, NEW r \in Requests, RefreshSwap(r)
    PROVE  RInv'
<1> DEFINE s == req[r].session
           t == req[r].token
           c == req[r].client
           fresh == req[r].fresh
<1>1. /\ s \in Sessions /\ t \in Tokens /\ c \in Clients /\ fresh \in Tokens
      /\ fresh \in Generated /\ exchanged[fresh] = {}
      /\ \A u \in Sessions : sess[u].current # fresh
      /\ req[r].step = "found"
  BY DEF RefreshSwap, RInv, RequestsOK, RequestOK
<1>2. PICK rec \in Rotations(sess[s], t, c, fresh) : sess' = [sess EXCEPT ![s] = rec]
  BY DEF RefreshSwap
<1>3. /\ sess[s].state = "stored" /\ sess[s].current = t /\ Send(t, fresh)
      /\ UNCHANGED <<store, generated, reuse, users>>
  BY DEF RefreshSwap, Swappable
<1>4. /\ generated' \in 0..MaxTokens /\ Generated' = Generated
      /\ users' \in [Sessions -> SUBSET Clients]
  BY <1>3 DEF RInv, TypeOK, Generated
<1>5. req' = [req EXCEPT ![r] = Idle]
  BY DEF RefreshSwap
<1>6. \A q \in Requests :
        \/ req'[q].step = "idle"
        \/ req'[q] = req[q] /\ (req[q].step = "found" => req[q].fresh # fresh)
  <2> SUFFICES ASSUME NEW q \in Requests
               PROVE  \/ req'[q].step = "idle"
                      \/ req'[q] = req[q] /\ (req[q].step = "found" => req[q].fresh # fresh)
    OBVIOUS
  <2>1. CASE q = r
    BY <2>1, <1>5, IdleTyped DEF RInv, TypeOK
  <2>2. CASE q # r
    BY <2>2, <1>1, <1>5 DEF RInv, TypeOK, FreshApart
  <2> QED
    BY <2>1, <2>2
<1>7. req' \in [Requests -> Request]
  BY <1>5, EndKeeps
<1> HIDE DEF s, t, c, fresh
<1> QED
  BY <1>1, <1>2, <1>3, <1>4, <1>6, <1>7, RotateKeeps

\* The steps of a refresh on MongoDB that write no new token.
LEMMA RefreshKeeps ==
    ASSUME RInv, NEW r \in Requests,
           \/ \E t \in Tokens, c \in Clients : RefreshMissed(r, t, c)
           \/ \E s \in Sessions : RefreshReplay(r, s) \/ RefreshReused(r, s)
           \/ RefreshOvertaken(r) \/ RefreshInvalid(r) \/ RefreshRevoke(r)
           \/ RefreshFail(r)
    PROVE  RInv'
<1>1. req[r] \in Request /\ RequestOK(req[r])
  BY DEF RInv, TypeOK, RequestsOK
<1>2. /\ users \in [Sessions -> SUBSET Clients] /\ reuse \subseteq Tokens
      /\ sent \subseteq Tokens
  BY DEF RInv, TypeOK
<1>3. ASSUME NEW t \in Tokens, NEW c \in Clients,
             req' = [req EXCEPT ![r] = [Idle EXCEPT !.step = "missed", !.token = t,
                                                    !.client = c]],
             UNCHANGED <<store, generated, sess, sent, exchanged, reuse, users>>
      PROVE  RInv'
  <2> DEFINE next == [Idle EXCEPT !.step = "missed", !.token = t, !.client = c]
  <2>1. next \in Request /\ next.step = "missed" /\ next.token = t /\ next.client = c
    BY DEF Idle, Request
  <2> HIDE DEF next
  <2>2. req' = [req EXCEPT ![r] = next]
    BY <1>3 DEF next
  <2>3. RequestOK(next) /\ next.step # "found"
    BY <2>1 DEF RequestOK
  <2>4. /\ users' \in [Sessions -> SUBSET Clients] /\ reuse' \subseteq Tokens
        /\ UNCHANGED <<store, generated, sess, sent, exchanged>>
    BY <1>2, <1>3
  <2> QED
    BY <2>1, <2>2, <2>3, <2>4, RequestStepKeeps
<1>4. ASSUME NEW t \in Tokens, NEW c \in Clients, RefreshMissed(r, t, c) PROVE RInv'
  BY <1>3, <1>4 DEF RefreshMissed
<1>5. CASE RefreshOvertaken(r)
  <2>1. req[r].token \in Tokens /\ req[r].client \in Clients
    BY <1>1, <1>5 DEF RequestOK, RefreshOvertaken
  <2> QED
    BY <2>1, <1>3, <1>5 DEF RefreshOvertaken
<1>6. ASSUME NEW s \in Sessions, RefreshReplay(r, s) PROVE RInv'
  <2>1. req[r].token \in Tokens /\ req[r].client \in Clients
    BY <1>1, <1>6 DEF RequestOK, RefreshReplay
  <2>2. sent' \subseteq Tokens /\ exchanged' = exchanged
    BY <1>6, <2>1, SealedSent DEF RefreshReplay
  <2>3. users' \in [Sessions -> SUBSET Clients]
    BY <1>6, <2>1, PresentedTyped DEF RefreshReplay
  <2>4. /\ req' \in [Requests -> Request]
        /\ \A q \in Requests : req'[q] = req[q] \/ req'[q].step = "idle"
    BY <1>6, EndKeeps DEF RefreshReplay
  <2>5. reuse' \subseteq Tokens /\ UNCHANGED <<store, generated, sess>>
    BY <1>2, <1>6 DEF RefreshReplay
  <2> QED
    BY <2>2, <2>3, <2>4, <2>5, UnrevisedKeeps
<1>7. ASSUME NEW s \in Sessions, RefreshReused(r, s) PROVE RInv'
  <2> DEFINE next == [req[r] EXCEPT !.step = "reused", !.session = s]
  <2>1. req[r].token \in Tokens /\ req[r].client \in Clients
    BY <1>1, <1>7 DEF RequestOK, RefreshReused
  <2>2. /\ next \in Request /\ next.step = "reused" /\ next.token = req[r].token
        /\ next.session = s
    BY <1>1 DEF Request
  <2> HIDE DEF next
  <2>3. req' = [req EXCEPT ![r] = next]
    BY <1>7 DEF RefreshReused, next
  <2>4. RequestOK(next) /\ next.step # "found"
    BY <2>1, <2>2 DEF RequestOK
  <2>5. users' \in [Sessions -> SUBSET Clients]
    BY <1>7, <2>1, PresentedTyped DEF RefreshReused
  <2>6. reuse' \subseteq Tokens /\ UNCHANGED <<store, generated, sess, sent, exchanged>>
    BY <1>2, <1>7 DEF RefreshReused
  <2> QED
    BY <2>2, <2>3, <2>4, <2>5, <2>6, RequestStepKeeps
<1>8. CASE RefreshInvalid(r) \/ RefreshFail(r)
  <2>1. /\ req' \in [Requests -> Request]
        /\ \A q \in Requests : req'[q] = req[q] \/ req'[q].step = "idle"
    BY <1>8, EndKeeps DEF RefreshInvalid, RefreshFail
  <2>2. /\ sent' \subseteq Tokens /\ reuse' \subseteq Tokens
        /\ users' \in [Sessions -> SUBSET Clients]
        /\ UNCHANGED <<store, generated, sess, exchanged>>
    BY <1>2, <1>8 DEF RefreshInvalid, RefreshFail
  <2> QED
    BY <2>1, <2>2, UnrevisedKeeps
<1>9. CASE RefreshRevoke(r)
  <2> DEFINE s == req[r].session
  <2>1. s \in Sessions /\ req[r].token \in Tokens
    BY <1>1, <1>9 DEF RequestOK, RefreshRevoke
  <2>2. /\ req' \in [Requests -> Request]
        /\ \A q \in Requests : req'[q] = req[q] \/ req'[q].step = "idle"
    BY <1>9, EndKeeps DEF RefreshRevoke
  <2>3. /\ reuse' \subseteq Tokens /\ users' \in [Sessions -> SUBSET Clients]
        /\ UNCHANGED <<store, generated, sent, exchanged>>
    BY <1>2, <1>9, <2>1 DEF RefreshRevoke, TellReuse
  <2>4. CASE Revocable(sess[s], req[r].token)
    <3>1. "refresh_token_reuse" \in Revocation /\ sess[s].state # "absent"
      BY <2>4 DEF Revocation, Revocable
    <3>2. sess' = [sess EXCEPT ![s] = Revoked(sess[s], "refresh_token_reuse")]
      BY <1>9, <2>4 DEF RefreshRevoke
    <3> QED
      BY <3>1, <3>2, <2>1, <2>2, <2>3, RevokeKeeps
  <2>5. CASE ~Revocable(sess[s], req[r].token)
    <3>1. sess' = sess
      BY <1>9, <2>1, <2>5 DEF RefreshRevoke, RInv, TypeOK
    <3> QED
      BY <3>1, <1>2, <2>2, <2>3, UnrevisedKeeps
  <2> QED
    BY <2>4, <2>5
<1> QED
  BY <1>4, <1>5, <1>6, <1>7, <1>8, <1>9

\* Logout, revocation of all sessions, pruning and time.
LEMMA EndingKeeps ==
    ASSUME RInv,
           \/ \E s \in Sessions : Logout(s) \/ Prune(s) \/ Expire(s) \/ GraceEnds(s)
           \/ \E S \in SUBSET Sessions : RevokeAll(S)
    PROVE  RInv'
<1>1. /\ UNCHANGED <<store, generated, sent, req, exchanged, reuse, users>>
      /\ req' \in [Requests -> Request] /\ reuse' \subseteq Tokens
      /\ sent' \subseteq Tokens /\ users' \in [Sessions -> SUBSET Clients]
      /\ \A r \in Requests : req'[r] = req[r]
  BY DEF Logout, Prune, Expire, GraceEnds, RevokeAll, RInv, TypeOK
<1>2. ASSUME NEW s \in Sessions, Logout(s) PROVE RInv'
  <2>1. "logout" \in Revocation
    BY DEF Revocation
  <2> QED
    BY <1>1, <1>2, <2>1, RevokeKeeps DEF Logout
<1>3. ASSUME NEW s \in Sessions, Prune(s) PROVE RInv'
  <2> DEFINE rec == [Absent EXCEPT !.state = "deleted", !.current = sess[s].current]
  <2>1. sess[s] \in Session
    BY DEF RInv, TypeOK
  <2>2. /\ rec \in Session /\ rec.current = sess[s].current /\ rec.state = "deleted"
        /\ rec.replay.of = NoToken /\ ~rec.replay.open
    BY <2>1, AbsentTyped DEF Absent, NoReplay, Session
  <2> HIDE DEF rec
  <2>3. sess' = [sess EXCEPT ![s] = rec] /\ sess[s].state = "stored"
    BY <1>3 DEF Prune, rec
  <2> QED
    BY <1>1, <2>2, <2>3, RecordKeeps
<1>4. ASSUME NEW s \in Sessions, Expire(s) PROVE RInv'
  <2> DEFINE rec == [sess[s] EXCEPT !.expired = TRUE]
  <2>1. /\ sess[s] \in Session /\ (sess[s].replay.open => sess[s].replay.of # NoToken)
    BY DEF RInv, TypeOK, SessionsOK
  <2>2. /\ rec \in Session /\ rec.current = sess[s].current
        /\ rec.state = sess[s].state /\ rec.replay = sess[s].replay
    BY <2>1 DEF Session
  <2> HIDE DEF rec
  <2>3. sess' = [sess EXCEPT ![s] = rec] /\ sess[s].state = "stored"
    BY <1>4 DEF Expire, rec
  <2> QED
    BY <1>1, <2>1, <2>2, <2>3, RecordKeeps
<1>5. ASSUME NEW s \in Sessions, GraceEnds(s) PROVE RInv'
  <2> DEFINE rec == [sess[s] EXCEPT !.replay = [sess[s].replay EXCEPT !.open = FALSE]]
  <2>1. /\ sess[s] \in Session /\ sess[s].replay \in Replay
        /\ (sess[s].state = "absent" => sess[s].revoked = "none")
    BY DEF RInv, TypeOK, SessionsOK, Session
  <2>2. /\ [sess[s].replay EXCEPT !.open = FALSE] \in Replay
        /\ ~[sess[s].replay EXCEPT !.open = FALSE].open
        /\ [sess[s].replay EXCEPT !.open = FALSE].of = sess[s].replay.of
        /\ [sess[s].replay EXCEPT !.open = FALSE].sealed = sess[s].replay.sealed
    BY <2>1 DEF Replay
  <2>3. /\ rec \in Session /\ rec.current = sess[s].current
        /\ rec.state = sess[s].state /\ rec.revoked = sess[s].revoked
        /\ rec.replay.of = sess[s].replay.of /\ ~rec.replay.open
        /\ rec.replay.sealed = sess[s].replay.sealed
    BY <2>1, <2>2 DEF Session
  <2> HIDE DEF rec
  <2>4. sess' = [sess EXCEPT ![s] = rec]
    BY <1>5 DEF GraceEnds, rec
  <2> QED
    BY <1>1, <2>1, <2>3, <2>4, RecordKeeps
<1>6. ASSUME NEW S \in SUBSET Sessions, RevokeAll(S) PROVE RInv'
  <2>1. "all" \in Revocation
    BY DEF Revocation
  <2>2. sess' = [s \in Sessions |-> IF s \in S THEN Revoked(sess[s], "all") ELSE sess[s]]
    BY <1>6 DEF RevokeAll
  <2>3. sess' \in [Sessions -> Session]
    BY <2>1, <2>2, RevokedRecord DEF RInv, TypeOK
  <2>4. \A s \in Sessions :
          /\ sess'[s].current = sess[s].current
          /\ sess'[s].state = "absent" <=> sess[s].state = "absent"
          /\ sess'[s].state = "absent" => sess'[s].revoked = "none"
          /\ sess'[s].replay.of \in {NoToken, sess[s].replay.of}
          /\ sess'[s].replay.of # NoToken =>
                 sess'[s].replay.sealed = sess[s].replay.sealed
          /\ sess'[s].replay.open => sess'[s].replay.of # NoToken
    <3> SUFFICES ASSUME NEW s \in Sessions
                 PROVE  /\ sess'[s].current = sess[s].current
                        /\ sess'[s].state = sess[s].state
                        /\ sess'[s].state = "absent" => sess'[s].revoked = "none"
                        /\ sess'[s].replay = sess[s].replay
                        /\ sess'[s].replay.open => sess'[s].replay.of # NoToken
      OBVIOUS
    <3>1. CASE s \in S
      <4>1. sess[s].state = "stored"
        BY <1>6, <3>1 DEF RevokeAll
      <4> QED
        BY <2>1, <2>2, <3>1, <4>1, RevokedRecord DEF RInv, SessionsOK
    <3>2. CASE s \notin S
      BY <2>2, <3>2 DEF RInv, SessionsOK
    <3> QED
      BY <3>1, <3>2
  <2> QED
    BY <1>1, <2>3, <2>4, RevisedKeeps
<1> QED
  BY <1>2, <1>3, <1>4, <1>5, <1>6

LEMMA InitRInv == Init => RInv
<1> SUFFICES ASSUME Init PROVE RInv
  OBVIOUS
<1>1. TypeOK
  BY AbsentTyped, IdleTyped, RefreshAssumption DEF Init, TypeOK
<1>2. SessionsOK /\ OneHolder
  BY DEF Init, SessionsOK, OneHolder, Absent, NoReplay
<1>3. ExchangedOnce
  BY DEF Init, ExchangedOnce
<1>4. RequestsOK /\ FreshApart
  BY IdleTyped DEF Init, RequestsOK, RequestOK, FreshApart
<1> QED
  BY <1>1, <1>2, <1>3, <1>4 DEF RInv

LEMMA NextRInv == RInv /\ [Next]_vars => RInv'
<1> SUFFICES ASSUME RInv, [Next]_vars PROVE RInv'
  OBVIOUS
<1>1. CASE UNCHANGED vars
  BY <1>1, UnrevisedKeeps DEF vars, RInv, TypeOK
<1>2. ASSUME NEW s \in Sessions, Create(s) PROVE RInv'
  BY <1>2, CreateKeeps
<1>3. ASSUME NEW s \in Sessions, NEW t \in Tokens, NEW c \in Clients,
             \/ JsonRotate(s, t, c) \/ JsonReplay(s, t, c) \/ JsonReuse(s, t, c)
      PROVE  RInv'
  BY <1>3, JsonRotateKeeps, JsonKeeps
<1>4. ASSUME NEW t \in Tokens, JsonInvalid(t) PROVE RInv'
  BY <1>1, <1>4 DEF JsonInvalid
<1>5. ASSUME NEW r \in Requests, NEW s \in Sessions, NEW t \in Tokens,
             RefreshEnded(r, s, t)
      PROVE  RInv'
  BY <1>1, <1>5 DEF RefreshEnded
<1>6. ASSUME NEW r \in Requests, NEW s \in Sessions, NEW t \in Tokens, NEW c \in Clients,
             RefreshFound(r, s, t, c)
      PROVE  RInv'
  BY <1>6, RefreshFoundKeeps
<1>7. ASSUME NEW r \in Requests, RefreshSwap(r) PROVE RInv'
  BY <1>7, RefreshSwapKeeps
<1>8. ASSUME NEW r \in Requests,
             \/ \E t \in Tokens, c \in Clients : RefreshMissed(r, t, c)
             \/ \E s \in Sessions : RefreshReplay(r, s) \/ RefreshReused(r, s)
             \/ RefreshOvertaken(r) \/ RefreshInvalid(r) \/ RefreshRevoke(r)
             \/ RefreshFail(r)
      PROVE  RInv'
  BY <1>8, RefreshKeeps
<1>9. CASE \/ \E s \in Sessions : Logout(s) \/ Prune(s) \/ Expire(s) \/ GraceEnds(s)
           \/ \E S \in SUBSET Sessions : RevokeAll(S)
  BY <1>9, EndingKeeps
<1> QED
  BY <1>1, <1>2, <1>3, <1>4, <1>5, <1>6, <1>7, <1>8, <1>9 DEF Next

-----------------------------------------------------------------------------
\* RefreshSessions stays well typed (TypeOK) on either store.
THEOREM TypeCorrect == Spec => []TypeOK
<1>1. RInv => TypeOK
  BY DEF RInv
<1> QED
  BY <1>1, InitRInv, NextRInv, PTL DEF Spec

\* rotateSession: all refreshes of one token that are answered are answered
\* with the same successor, whichever servers they reach.
THEOREM TokensHaveOneSuccessor == Spec => []OneSuccessor
<1>1. RInv => OneSuccessor
  <2>1. ASSUME RInv, NEW t \in Tokens PROVE Cardinality(exchanged[t]) <= 1
    <3>1. CASE exchanged[t] = {}
      BY <3>1, FS_EmptySet
    <3>2. ASSUME NEW new \in Tokens, exchanged[t] = {new}
          PROVE  Cardinality(exchanged[t]) <= 1
      <4>1. Cardinality({new}) = 1
        BY FS_Singleton
      <4> QED
        BY <3>2, <4>1
    <3> QED
      BY <2>1, <3>1, <3>2 DEF RInv, ExchangedOnce
  <2> QED
    BY <2>1 DEF OneSuccessor
<1> QED
  BY <1>1, InitRInv, NextRInv, PTL DEF Spec

-----------------------------------------------------------------------------
(* Each step is one of TokenChain, whose End may also end nothing.         *)

Ended(rec) == rec.revoked # "none" \/ rec.state = "deleted"

LEMMA MapsToEnd ==
    ASSUME RInv, RInv', exchanged' = exchanged,
           \A s \in Sessions : /\ sess'[s].current = sess[s].current
                               /\ Ended(sess[s]) => Ended(sess'[s])
    PROVE  Chain!End
<1>1. \A s \in Sessions : Ended(sess'[s]) => sess[s].current # NoToken
  <2> SUFFICES ASSUME NEW s \in Sessions, Ended(sess'[s])
               PROVE  sess'[s].current # NoToken
    OBVIOUS
  <2>1. sess'[s].state # "absent"
    BY DEF Ended, RInv, SessionsOK
  <2>2. sess'[s].current \in Generated' /\ Generated' \subseteq Tokens /\ NoToken \notin Tokens
    BY <2>1, RefreshAssumption DEF RInv, SessionsOK, TypeOK, Generated, Tokens, NoToken
  <2> QED
    BY <2>2
<1> QED
  BY <1>1 DEF Chain!End, Ended

LEMMA RotationMaps ==
    ASSUME RInv, NEW s \in Sessions, NEW t \in Tokens, NEW c \in Clients,
           NEW fresh \in Tokens, NEW rec \in Rotations(sess[s], t, c, fresh),
           sess[s].state = "stored", sess[s].current = t, sess[s].revoked = "none",
           sess' = [sess EXCEPT ![s] = rec], Send(t, fresh),
           exchanged[fresh] = {}, \A u \in Sessions : sess[u].current # fresh
    PROVE  Chain!Exchange(s)
<1> DEFINE cur == [u \in Sessions |-> sess[u].current]
           end == {u \in Sessions : Ended(sess[u])}
           used == {v \in Tokens : exchanged[v] # {}}
<1>1. /\ sess' \in [Sessions -> Session] /\ sess'[s] = rec
      /\ rec.current = fresh /\ rec.state = "stored" /\ rec.revoked = "none"
      /\ \A u \in Sessions \ {s} : sess'[u] = sess[u]
  BY RotationTyped DEF RInv, TypeOK
<1>2. cur' = [cur EXCEPT ![s] = fresh]
  BY <1>1
<1>3. used' = used \cup {cur[s]}
  BY DEF Send, RInv, TypeOK
<1>4. end' = end
  BY <1>1 DEF Ended
<1>5. cur[s] # NoToken /\ s \notin end
  BY GeneratedTokens DEF Ended
<1>6. fresh \in Tokens \ used /\ \A u \in Sessions : cur[u] # fresh
  OBVIOUS
<1> QED
  BY <1>2, <1>3, <1>4, <1>5, <1>6
     DEF Chain!Exchange, Chain!Open, Chain!New, Ended

LEMMA CreateMaps ==
    ASSUME RInv, NEW s \in Sessions, Create(s)
    PROVE  Chain!Start(s)
<1> DEFINE cur == [u \in Sessions |-> sess[u].current]
           end == {u \in Sessions : Ended(sess[u])}
           used == {v \in Tokens : exchanged[v] # {}}
           fresh == generated + 1
           rec == [Absent EXCEPT !.state = "stored", !.current = fresh]
<1>1. fresh \in Tokens /\ fresh \notin Generated /\ fresh # NoToken
  BY GeneratedTokens DEF Create
<1>2. rec.current = fresh /\ rec.state = "stored" /\ rec.revoked = "none"
  BY DEF Absent
<1> HIDE DEF rec, fresh
<1>3. /\ sess' = [sess EXCEPT ![s] = rec] /\ UNCHANGED exchanged
      /\ sess[s].state = "absent"
  BY DEF Create, rec, fresh
<1>4. sess'[s] = rec /\ \A u \in Sessions \ {s} : sess'[u] = sess[u]
  BY <1>3 DEF RInv, TypeOK
<1>5. cur' = [cur EXCEPT ![s] = fresh]
  BY <1>2, <1>4
<1>9. used' = used
  BY <1>3
<1>6. cur[s] = NoToken /\ s \notin end
  BY <1>3 DEF RInv, SessionsOK, Ended
<1>7. end' = end
  BY <1>2, <1>4, <1>6 DEF Ended
<1>8. fresh \in Tokens \ used /\ \A u \in Sessions : cur[u] # fresh
  BY <1>1 DEF RInv, ExchangedOnce, SessionsOK
<1> QED
  BY <1>5, <1>6, <1>7, <1>8, <1>9 DEF Chain!Start, Chain!New, Ended

LEMMA StepMaps ==
    ASSUME RInv, RInv', Next
    PROVE  Chain!Next
<1>1. ASSUME NEW s \in Sessions, Create(s) PROVE Chain!Next
  BY <1>1, CreateMaps DEF Chain!Next
<1>2. ASSUME NEW s \in Sessions, NEW t \in Tokens, NEW c \in Clients, JsonRotate(s, t, c)
      PROVE  Chain!Next
  <2>1. PICK rec \in Rotations(sess[s], t, c, generated + 1) : sess' = [sess EXCEPT ![s] = rec]
    BY <1>2 DEF JsonRotate
  <2>2. generated + 1 \in Tokens /\ generated + 1 \notin Generated /\ generated + 1 # NoToken
    BY <1>2, GeneratedTokens DEF JsonRotate
  <2>3. /\ exchanged[generated + 1] = {}
        /\ \A u \in Sessions : sess[u].current # generated + 1
    BY <2>2 DEF RInv, ExchangedOnce, SessionsOK
  <2>4. /\ sess[s].state = "stored" /\ sess[s].current = t /\ sess[s].revoked = "none"
        /\ Send(t, generated + 1)
    BY <1>2 DEF JsonRotate, Holds, Live
  <2> QED
    BY <2>1, <2>2, <2>3, <2>4, RotationMaps DEF Chain!Next
<1>3. ASSUME NEW r \in Requests, RefreshSwap(r) PROVE Chain!Next
  <2>1. /\ req[r].session \in Sessions /\ req[r].token \in Tokens
        /\ req[r].client \in Clients /\ req[r].fresh \in Tokens
        /\ exchanged[req[r].fresh] = {}
        /\ \A u \in Sessions : sess[u].current # req[r].fresh
    BY <1>3 DEF RefreshSwap, RInv, RequestsOK, RequestOK
  <2>2. PICK rec \in Rotations(sess[req[r].session], req[r].token, req[r].client, req[r].fresh) :
            sess' = [sess EXCEPT ![req[r].session] = rec]
    BY <1>3 DEF RefreshSwap
  <2>3. /\ sess[req[r].session].state = "stored"
        /\ sess[req[r].session].current = req[r].token
        /\ sess[req[r].session].revoked = "none"
        /\ Send(req[r].token, req[r].fresh)
    BY <1>3 DEF RefreshSwap, Swappable
  <2> QED
    BY <2>1, <2>2, <2>3, RotationMaps DEF Chain!Next
<1>4. ASSUME UNCHANGED <<sess, exchanged>> PROVE Chain!Next
  BY <1>4, MapsToEnd DEF Chain!Next
<1>5. ASSUME NEW s \in Sessions, NEW rec, sess' = [sess EXCEPT ![s] = rec],
             rec.current = sess[s].current, Ended(sess[s]) => Ended(rec),
             UNCHANGED exchanged
      PROVE  Chain!Next
  <2>1. sess'[s] = rec /\ \A u \in Sessions \ {s} : sess'[u] = sess[u]
    BY <1>5 DEF RInv, TypeOK
  <2>2. \A u \in Sessions : /\ sess'[u].current = sess[u].current
                            /\ Ended(sess[u]) => Ended(sess'[u])
    BY <1>5, <2>1
  <2>3. exchanged' = exchanged
    BY <1>5
  <2> QED
    BY <2>2, <2>3, MapsToEnd DEF Chain!Next
<1>6. ASSUME NEW s \in Sessions, NEW reason \in Revocation \ {"none"},
             sess' = [sess EXCEPT ![s] = Revoked(sess[s], reason)], UNCHANGED exchanged
      PROVE  Chain!Next
  <2>1. /\ Revoked(sess[s], reason).current = sess[s].current
        /\ Ended(Revoked(sess[s], reason))
    BY <1>6, RevokedRecord DEF Ended
  <2> QED
    BY <1>5, <1>6, <2>1
<1>7. ASSUME NEW s \in Sessions, NEW t \in Tokens, NEW c \in Clients,
             JsonReplay(s, t, c) \/ JsonReuse(s, t, c)
      PROVE  Chain!Next
  <2>1. CASE JsonReplay(s, t, c)
    <3>1. UNCHANGED <<sess, exchanged>>
      BY <2>1, SealedSent DEF JsonReplay
    <3> QED
      BY <3>1, <1>4
  <2>2. CASE JsonReuse(s, t, c)
    <3>1. "refresh_token_reuse" \in Revocation \ {"none"}
      BY DEF Revocation
    <3> QED
      BY <2>2, <3>1, <1>6 DEF JsonReuse
  <2> QED
    BY <1>7, <2>1, <2>2
<1>8. ASSUME NEW r \in Requests, NEW s \in Sessions, RefreshReplay(r, s) PROVE Chain!Next
  <2>1. req[r].token \in Tokens
    BY <1>8 DEF RefreshReplay, RInv, RequestsOK, RequestOK
  <2>2. UNCHANGED <<sess, exchanged>>
    BY <1>8, <2>1, SealedSent DEF RefreshReplay
  <2> QED
    BY <2>2, <1>4
<1>9. ASSUME NEW r \in Requests, RefreshRevoke(r) PROVE Chain!Next
  <2>1. req[r].session \in Sessions
    BY <1>9 DEF RefreshRevoke, RInv, RequestsOK, RequestOK
  <2>2. CASE Revocable(sess[req[r].session], req[r].token)
    <3>1. "refresh_token_reuse" \in Revocation \ {"none"}
      BY DEF Revocation
    <3>2. /\ sess' = [sess EXCEPT ![req[r].session] =
                         Revoked(sess[req[r].session], "refresh_token_reuse")]
          /\ UNCHANGED exchanged
      BY <1>9, <2>2 DEF RefreshRevoke
    <3> QED
      BY <3>1, <3>2, <2>1, <1>6
  <2>3. CASE ~Revocable(sess[req[r].session], req[r].token)
    <3>1. UNCHANGED <<sess, exchanged>>
      BY <1>9, <2>1, <2>3 DEF RefreshRevoke, RInv, TypeOK
    <3> QED
      BY <3>1, <1>4
  <2> QED
    BY <2>2, <2>3
<1>10. ASSUME NEW s \in Sessions, Logout(s) PROVE Chain!Next
  <2>1. "logout" \in Revocation \ {"none"}
    BY DEF Revocation
  <2> QED
    BY <1>10, <2>1, <1>6 DEF Logout
<1>11. ASSUME NEW S \in SUBSET Sessions, RevokeAll(S) PROVE Chain!Next
  <2>1. "all" \in Revocation \ {"none"}
    BY DEF Revocation
  <2>2. \A s \in Sessions : /\ sess'[s].current = sess[s].current
                            /\ Ended(sess[s]) => Ended(sess'[s])
    BY <1>11, <2>1, RevokedRecord DEF RevokeAll, Ended
  <2>3. exchanged' = exchanged
    BY <1>11 DEF RevokeAll
  <2> QED
    BY <2>2, <2>3, MapsToEnd DEF Chain!Next
<1>12. ASSUME NEW s \in Sessions, Prune(s) PROVE Chain!Next
  <2> DEFINE rec == [Absent EXCEPT !.state = "deleted", !.current = sess[s].current]
  <2>1. rec.current = sess[s].current /\ Ended(rec)
    BY DEF Absent, Ended
  <2>2. sess' = [sess EXCEPT ![s] = rec] /\ UNCHANGED exchanged
    BY <1>12 DEF Prune
  <2> HIDE DEF rec
  <2> QED
    BY <2>1, <2>2, <1>5
<1>13. ASSUME NEW s \in Sessions, Expire(s) \/ GraceEnds(s) PROVE Chain!Next
  <2>1. sess[s] \in Session
    BY DEF RInv, TypeOK
  <2>2. CASE Expire(s)
    <3> DEFINE rec == [sess[s] EXCEPT !.expired = TRUE]
    <3>1. rec.current = sess[s].current /\ (Ended(sess[s]) => Ended(rec))
      BY <2>1 DEF Session, Ended
    <3>2. sess' = [sess EXCEPT ![s] = rec] /\ UNCHANGED exchanged
      BY <2>2 DEF Expire
    <3> HIDE DEF rec
    <3> QED
      BY <3>1, <3>2, <1>5
  <2>3. CASE GraceEnds(s)
    <3> DEFINE rec == [sess[s] EXCEPT !.replay = [sess[s].replay EXCEPT !.open = FALSE]]
    <3>1. rec.current = sess[s].current /\ (Ended(sess[s]) => Ended(rec))
      BY <2>1 DEF Session, Ended
    <3>2. sess' = [sess EXCEPT ![s] = rec] /\ UNCHANGED exchanged
      BY <2>3 DEF GraceEnds
    <3> HIDE DEF rec
    <3> QED
      BY <3>1, <3>2, <1>5
  <2> QED
    BY <1>13, <2>2, <2>3
<1>15. ASSUME NEW r \in Requests,
              RefreshOvertaken(r) \/ RefreshInvalid(r) \/ RefreshFail(r)
       PROVE  Chain!Next
  BY <1>4, <1>15 DEF RefreshOvertaken, RefreshInvalid, RefreshFail
<1>16. ASSUME NEW t \in Tokens, JsonInvalid(t) PROVE Chain!Next
  BY <1>4, <1>16 DEF JsonInvalid, vars
<1>17. ASSUME NEW r \in Requests, NEW s \in Sessions, NEW t \in Tokens,
              RefreshEnded(r, s, t)
       PROVE  Chain!Next
  BY <1>4, <1>17 DEF RefreshEnded, vars
<1>18. ASSUME NEW r \in Requests, NEW t \in Tokens, NEW c \in Clients,
              RefreshMissed(r, t, c)
       PROVE  Chain!Next
  BY <1>4, <1>18 DEF RefreshMissed
<1>19. ASSUME NEW r \in Requests, NEW s \in Sessions, RefreshReused(r, s) PROVE Chain!Next
  BY <1>4, <1>19 DEF RefreshReused
<1>20. ASSUME NEW r \in Requests, NEW s \in Sessions, NEW t \in Tokens, NEW c \in Clients,
              RefreshFound(r, s, t, c)
       PROVE  Chain!Next
  BY <1>4, <1>20 DEF RefreshFound
<1> QED
  BY <1>1, <1>2, <1>3, <1>7, <1>8, <1>9, <1>10, <1>11, <1>12, <1>13, <1>15, <1>16,
     <1>17, <1>18, <1>19, <1>20 DEF Next

\* The sessions implement TokenChain on either store: a token is exchanged once,
\* for the next of its chain, and a session that ended issues none again.
THEOREM SessionsImplementTokenChain == Spec => ImplementsTokenChain
<1>1. Init => Chain!Init
  BY DEF Init, Chain!Init, Absent
<1>2. RInv /\ RInv' /\ [Next]_vars
        => [Chain!Next]_<<[s \in Sessions |-> sess[s].current],
                          {s \in Sessions : sess[s].revoked # "none" \/ sess[s].state = "deleted"},
                          {t \in Tokens : exchanged[t] # {}}>>
  <2>1. CASE UNCHANGED vars
    BY <2>1 DEF vars
  <2>2. ASSUME RInv, RInv', Next PROVE Chain!Next
    BY <2>2, StepMaps
  <2> QED
    BY <2>1, <2>2
<1> QED
  BY <1>1, <1>2, InitRInv, NextRInv, PTL DEF Spec, ImplementsTokenChain, Chain!Spec

-----------------------------------------------------------------------------
(* Reuse.  A session remembers only tokens that were exchanged, never      *)
(* another session's, and its last rotation is the newest of them.  A      *)
(* request that is to revoke a session keeps the grounds it found: its     *)
(* token was not the last rotated, or another client rotated it, or the    *)
(* retry window had ended; a later rotation only adds a token.             *)

InOrder(rec) ==
    \/ rec.previous = {} /\ rec.replay.of = NoToken
    \/ /\ rec.replay.of \in rec.previous
       /\ \A p \in rec.previous : p <= rec.replay.of

RememberedOK ==
    /\ \A s \in Sessions :
           /\ InOrder(sess[s])
           /\ sess[s].previous # {} => sess[s].state = "stored"
           /\ \A p \in sess[s].previous : p < sess[s].current /\ exchanged[p] # {}
    /\ \A s, u \in Sessions : s # u => sess[s].previous \cap sess[u].previous = {}

Refused(rec, t, c) ==
    \/ rec.replay.of = t /\ (rec.replay.open => rec.replay.by # c)
    \/ \E p \in rec.previous : p # rec.replay.of

AnswerOK(q) ==
    /\ q.step = "found" => q.token < q.fresh
    /\ q.step = "reused" =>
           /\ q.client \in users[q.session]
           /\ exchanged[q.token] # {}
           /\ \A s \in Sessions : q.token \in sess[s].previous => s = q.session
           /\ Refused(sess[q.session], q.token, q.client)

AnswersOK == \A r \in Requests : AnswerOK(req[r])

ReuseOK ==
    \A t \in reuse :
        /\ exchanged[t] # {}
        /\ \A s \in Sessions : t \in sess[s].previous => sess[s].revoked # "none"

UInv == RInv /\ RememberedOK /\ AnswersOK /\ ReuseOK

\* The record remembers what it did; it may have ended, or its window may have.
Continues(new, old) ==
    /\ new.previous = old.previous
    /\ new.replay.of = old.replay.of
    /\ old.previous # {} => new.current = old.current /\ new.state = old.state
    /\ old.replay.of # NoToken => new.replay.by = old.replay.by
    /\ new.replay.open => old.replay.open
    /\ old.revoked # "none" => new.revoked # "none"

LEMMA RecordTyped ==
    ASSUME RInv, NEW s \in Sessions
    PROVE  /\ sess[s] \in Session /\ sess[s].previous \subseteq Tokens
           /\ sess[s].current \in Nat /\ sess[s].replay.of \in Nat
           /\ sess[s].replay.of # NoToken => sess[s].replay.of \in Tokens
           /\ Tokens \subseteq Nat /\ NoToken \notin Tokens
<1>1. sess[s] \in Session /\ Tokens \subseteq Nat /\ NoToken \in Nat /\ NoToken \notin Tokens
  BY RefreshAssumption DEF RInv, TypeOK, Tokens, NoToken
<1>2. /\ sess[s].previous \subseteq Tokens /\ sess[s].replay \in Replay
      /\ sess[s].current \in Tokens \cup {NoToken}
  BY <1>1 DEF Session
<1>3. sess[s].replay.of \in Tokens \cup {NoToken}
  BY <1>2 DEF Replay
<1> QED
  BY <1>1, <1>2, <1>3

\* A record that continues keeps the grounds of a refusal.
LEMMA ContinuesRefused ==
    ASSUME NEW old, NEW new, Continues(new, old), NEW t, t # NoToken, NEW c,
           Refused(old, t, c)
    PROVE  Refused(new, t, c)
BY DEF Continues, Refused

LEMMA ContinuesKeeps ==
    ASSUME UInv, RInv', \A s \in Sessions : Continues(sess'[s], sess[s]),
           exchanged' = exchanged,
           \A s \in Sessions : users[s] \subseteq users'[s],
           \A r \in Requests :
               req'[r] = req[r] \/ req'[r].step = "idle" \/ AnswerOK(req[r])',
           \A t \in reuse' \ reuse :
               /\ exchanged[t] # {}
               /\ \A s \in Sessions : t \in sess[s].previous => sess'[s].revoked # "none"
    PROVE  UInv'
<1>1. RememberedOK'
  <2> SUFFICES ASSUME NEW s \in Sessions
               PROVE  /\ InOrder(sess'[s])
                      /\ sess'[s].previous # {} => sess'[s].state = "stored"
                      /\ \A p \in sess'[s].previous : p < sess'[s].current /\ exchanged'[p] # {}
                      /\ sess'[s].previous = sess[s].previous
    BY DEF UInv, RememberedOK
  <2>1. /\ InOrder(sess[s])
        /\ sess[s].previous # {} => sess[s].state = "stored"
        /\ \A p \in sess[s].previous : p < sess[s].current /\ exchanged[p] # {}
    BY DEF UInv, RememberedOK
  <2>2. Continues(sess'[s], sess[s])
    OBVIOUS
  <2>3. InOrder(sess'[s])
    BY <2>1, <2>2 DEF InOrder, Continues
  <2> QED
    BY <2>1, <2>2, <2>3 DEF Continues
<1>2. AnswersOK'
  <2> SUFFICES ASSUME NEW r \in Requests PROVE AnswerOK(req[r])'
    BY DEF AnswersOK
  <2>1. CASE req'[r].step = "idle"
    BY <2>1 DEF AnswerOK
  <2>2. CASE req'[r] = req[r]
    <3>1. AnswerOK(req[r]) /\ RequestOK(req[r])
      BY DEF UInv, AnswersOK, RInv, RequestsOK
    <3>2. CASE req[r].step = "reused"
      <4> DEFINE s == req[r].session
                 t == req[r].token
      <4>1. /\ s \in Sessions /\ t \in Tokens /\ req[r].client \in users[s]
            /\ exchanged[t] # {}
            /\ \A u \in Sessions : t \in sess[u].previous => u = s
            /\ Refused(sess[s], t, req[r].client)
        BY <3>1, <3>2 DEF AnswerOK, RequestOK
      <4>2. t # NoToken
        BY <4>1, GeneratedTokens DEF UInv
      <4>3. Continues(sess'[s], sess[s])
        BY <4>1
      <4>4. Refused(sess'[s], t, req[r].client)
        BY <4>1, <4>2, <4>3, ContinuesRefused
      <4>5. \A u \in Sessions : t \in sess'[u].previous => u = s
        BY <4>1 DEF Continues
      <4> QED
        BY <2>2, <3>2, <4>1, <4>4, <4>5 DEF AnswerOK
    <3>3. CASE req[r].step # "reused"
      BY <2>2, <3>1, <3>3 DEF AnswerOK
    <3> QED
      BY <3>2, <3>3
  <2> QED
    BY <2>1, <2>2
<1>3. ReuseOK'
  <2> SUFFICES ASSUME NEW t \in reuse'
               PROVE  /\ exchanged'[t] # {}
                      /\ \A s \in Sessions : t \in sess'[s].previous => sess'[s].revoked # "none"
    BY DEF ReuseOK
  <2>1. CASE t \in reuse
    BY <2>1 DEF UInv, ReuseOK, Continues
  <2>2. CASE t \notin reuse
    BY <2>2 DEF Continues
  <2> QED
    BY <2>1, <2>2
<1> QED
  BY <1>1, <1>2, <1>3 DEF UInv

\* A record goes on that is not revised.
LEMMA UnrevisedContinues ==
    ASSUME RInv, sess' = sess
    PROVE  \A s \in Sessions : Continues(sess'[s], sess[s])
BY DEF Continues

\* One record is revised.
LEMMA OneContinues ==
    ASSUME RInv, NEW s \in Sessions, NEW rec, sess' = [sess EXCEPT ![s] = rec],
           Continues(rec, sess[s])
    PROVE  \A u \in Sessions : Continues(sess'[u], sess[u])
<1>1. sess'[s] = rec /\ \A u \in Sessions \ {s} : sess'[u] = sess[u]
  BY DEF RInv, TypeOK
<1>2. \A u \in Sessions : Continues(sess[u], sess[u])
  BY DEF Continues
<1> QED
  BY <1>1, <1>2

LEMMA RevokedContinues ==
    ASSUME RInv, NEW s \in Sessions, NEW reason \in Revocation \ {"none"}
    PROVE  /\ Continues(Revoked(sess[s], reason), sess[s])
           /\ Revoked(sess[s], reason).revoked = reason
<1>1. sess[s] \in Session
  BY DEF RInv, TypeOK
<1> QED
  BY <1>1 DEF Revoked, Session, Continues

LEMMA PresentedUsers ==
    ASSUME RInv, NEW s \in Sessions, NEW c \in Clients, Presented(s, c)
    PROVE  /\ c \in users'[s]
           /\ \A u \in Sessions : users[u] \subseteq users'[u]
BY DEF Presented, RInv, TypeOK

\* A rotation remembers the token rotated, and the one rotated before.
LEMMA RotationRemembers ==
    ASSUME NEW rec \in Session, InOrder(rec), NEW t \in Tokens,
           \A p \in rec.previous : p < t,
           NEW c, NEW fresh, NEW new \in Rotations(rec, t, c, fresh)
    PROVE  /\ new.previous \subseteq rec.previous \cup {t}
           /\ t \in new.previous
           /\ new.replay.of = t
           /\ new.current = fresh
           /\ new.revoked = rec.revoked /\ new.state = rec.state
           /\ rec.previous # {} => rec.replay.of \in new.previous
<1>1. PICK late \in {FALSE, rec.expired} :
        new = [rec EXCEPT !.current = fresh,
                          !.previous = Remembered(@, t),
                          !.expired = late,
                          !.replay = [of |-> t, by |-> c, sealed |-> fresh, open |-> TRUE]]
  BY DEF Rotations
<1>2. /\ new.previous = Remembered(rec.previous, t) /\ new.replay.of = t
      /\ new.current = fresh /\ new.revoked = rec.revoked /\ new.state = rec.state
  BY <1>1 DEF Session
<1>3. /\ rec.previous \subseteq Nat /\ t \in Nat
      /\ 0 < KeepPrevious /\ 1 < KeepPrevious
  BY RefreshAssumption DEF Session, Tokens
<1>4. t \in Remembered(rec.previous, t)
  <2>1. {q \in rec.previous \cup {t} : q > t} = {}
    BY <1>3
  <2>2. Cardinality({q \in rec.previous \cup {t} : q > t}) = 0
    BY <2>1, FS_EmptySet
  <2> QED
    BY <2>2, <1>3 DEF Remembered
<1>5. ASSUME rec.previous # {} PROVE rec.replay.of \in Remembered(rec.previous, t)
  <2> DEFINE p == rec.replay.of
  <2>1. p \in rec.previous /\ \A q \in rec.previous : q <= p
    BY <1>5 DEF InOrder
  <2>2. {q \in rec.previous \cup {t} : q > p} = {t}
    BY <1>3, <2>1
  <2>3. Cardinality({q \in rec.previous \cup {t} : q > p}) = 1
    BY <2>2, FS_Singleton
  <2> QED
    BY <1>3, <2>1, <2>3 DEF Remembered
<1> QED
  BY <1>2, <1>4, <1>5 DEF Remembered

LEMMA RotateRemembers ==
    ASSUME UInv, RInv', NEW s \in Sessions, NEW t \in Tokens, NEW c \in Clients,
           NEW fresh \in Tokens, t < fresh,
           sess[s].state = "stored", sess[s].current = t, sess[s].revoked = "none",
           NEW rec \in Rotations(sess[s], t, c, fresh),
           sess' = [sess EXCEPT ![s] = rec], Send(t, fresh),
           \A u \in Sessions : users[u] \subseteq users'[u],
           \A r \in Requests : req'[r] = req[r] \/ req'[r].step = "idle",
           reuse' = reuse
    PROVE  UInv'
<1>1. /\ sess[s] \in Session /\ sess[s].previous \subseteq Tokens
      /\ Tokens \subseteq Nat /\ NoToken \notin Tokens
  BY RecordTyped DEF UInv
<1>2. /\ InOrder(sess[s])
      /\ \A p \in sess[s].previous : p < t /\ exchanged[p] # {}
  BY DEF UInv, RememberedOK
<1>3. /\ rec.previous \subseteq sess[s].previous \cup {t}
      /\ t \in rec.previous /\ rec.replay.of = t /\ rec.current = fresh
      /\ rec.revoked = "none" /\ rec.state = "stored"
      /\ sess[s].previous # {} => sess[s].replay.of \in rec.previous
  BY <1>1, <1>2, RotationRemembers
<1>4. sess'[s] = rec /\ \A u \in Sessions \ {s} : sess'[u] = sess[u]
  BY DEF UInv, RInv, TypeOK
<1>5. /\ exchanged'[t] # {} /\ \A v \in Tokens \ {t} : exchanged'[v] = exchanged[v]
  BY DEF Send, UInv, RInv, TypeOK
<1>6. exchanged[t] = {} /\ \A u \in Sessions : t \notin sess[u].previous
  BY DEF UInv, RInv, ExchangedOnce, RememberedOK
<1>7. RememberedOK'
  <2>1. ASSUME NEW u \in Sessions
        PROVE  /\ InOrder(sess'[u])
               /\ sess'[u].previous # {} => sess'[u].state = "stored"
               /\ \A p \in sess'[u].previous : p < sess'[u].current /\ exchanged'[p] # {}
    <3>1. CASE u = s
      <4>1. InOrder(rec)
        BY <1>1, <1>2, <1>3 DEF InOrder
      <4>2. \A p \in rec.previous : p < fresh /\ exchanged'[p] # {}
        BY <1>1, <1>2, <1>3, <1>5
      <4> QED
        BY <3>1, <4>1, <4>2, <1>3, <1>4
    <3>2. CASE u # s
      <4>1. /\ InOrder(sess[u])
            /\ sess[u].previous # {} => sess[u].state = "stored"
            /\ sess[u].previous \subseteq Tokens
            /\ \A p \in sess[u].previous : p < sess[u].current /\ exchanged[p] # {}
        BY RecordTyped DEF UInv, RememberedOK
      <4> QED
        BY <3>2, <4>1, <1>4, <1>5
    <3> QED
      BY <3>1, <3>2
  <2>2. ASSUME NEW u \in Sessions, NEW v \in Sessions, u # v
        PROVE  sess'[u].previous \cap sess'[v].previous = {}
    <3>1. sess[u].previous \cap sess[v].previous = {}
      BY <2>2 DEF UInv, RememberedOK
    <3> QED
      BY <2>2, <3>1, <1>3, <1>4, <1>6
  <2> QED
    BY <2>1, <2>2 DEF RememberedOK
<1>8. AnswersOK'
  <2> SUFFICES ASSUME NEW r \in Requests, req'[r] = req[r] PROVE AnswerOK(req[r])'
    BY DEF AnswersOK, AnswerOK
  <2>1. AnswerOK(req[r]) /\ RequestOK(req[r])
    BY DEF UInv, AnswersOK, RInv, RequestsOK
  <2>2. CASE req[r].step = "reused"
    <3> DEFINE u == req[r].session
               v == req[r].token
    <3>1. /\ u \in Sessions /\ v \in Tokens /\ req[r].client \in users[u]
          /\ exchanged[v] # {}
          /\ \A w \in Sessions : v \in sess[w].previous => w = u
          /\ Refused(sess[u], v, req[r].client)
      BY <2>1, <2>2 DEF AnswerOK, RequestOK
    <3>2. v # t /\ exchanged'[v] # {}
      BY <3>1, <1>5, <1>6
    <3>3. \A w \in Sessions : v \in sess'[w].previous => w = u
      BY <3>1, <3>2, <1>3, <1>4
    <3>4. Refused(sess'[u], v, req[r].client)
      <4>1. CASE u = s
        <5>1. sess[s].previous # {}
          <6>1. v # NoToken
            BY <3>1, <1>1
          <6> QED
            BY <3>1, <4>1, <6>1, <1>2 DEF Refused, InOrder
        <5>2. sess[s].replay.of \in sess[s].previous
          BY <5>1, <1>2 DEF InOrder
        <5>3. sess[s].replay.of \in rec.previous /\ sess[s].replay.of # rec.replay.of
          BY <5>1, <5>2, <1>3, <1>6
        <5> QED
          BY <4>1, <5>3, <1>4 DEF Refused
      <4>2. CASE u # s
        BY <3>1, <4>2, <1>4
      <4> QED
        BY <4>1, <4>2
    <3> QED
      BY <2>2, <3>1, <3>2, <3>3, <3>4 DEF AnswerOK
  <2>3. CASE req[r].step # "reused"
    BY <2>1, <2>3 DEF AnswerOK
  <2> QED
    BY <2>2, <2>3
<1>9. ReuseOK'
  <2> SUFFICES ASSUME NEW v \in reuse
               PROVE  /\ exchanged'[v] # {}
                      /\ \A u \in Sessions : v \in sess'[u].previous => sess'[u].revoked # "none"
    BY DEF ReuseOK
  <2>1. /\ v \in Tokens /\ exchanged[v] # {}
        /\ \A u \in Sessions : v \in sess[u].previous => sess[u].revoked # "none"
    BY DEF UInv, ReuseOK, RInv, TypeOK
  <2>2. v # t
    BY <2>1, <1>6
  <2> QED
    BY <2>1, <2>2, <1>3, <1>4, <1>5
<1> QED
  BY <1>7, <1>8, <1>9 DEF UInv

LEMMA CreateReuse ==
    ASSUME UInv, RInv', NEW s \in Sessions, Create(s)
    PROVE  UInv'
<1> DEFINE rec == [Absent EXCEPT !.state = "stored", !.current = generated + 1]
<1>1. /\ sess[s].previous = {} /\ sess[s].replay.of = NoToken
      /\ sess[s].revoked = "none"
  BY DEF UInv, RInv, SessionsOK, RememberedOK, InOrder, Create
<1>2. Continues(rec, sess[s])
  BY <1>1 DEF Continues, Absent, NoReplay
<1> HIDE DEF rec
<1>3. /\ sess' = [sess EXCEPT ![s] = rec]
      /\ UNCHANGED <<req, exchanged, reuse, users>>
  BY DEF Create, rec
<1>4. \A u \in Sessions : Continues(sess'[u], sess[u])
  BY <1>2, <1>3, OneContinues DEF UInv
<1> QED
  BY <1>3, <1>4, ContinuesKeeps

LEMMA JsonReuses ==
    ASSUME UInv, RInv', NEW s \in Sessions, NEW t \in Tokens, NEW c \in Clients,
           JsonRotate(s, t, c) \/ JsonReplay(s, t, c) \/ JsonReuse(s, t, c)
    PROVE  UInv'
<1>1. \A u \in Sessions : users[u] \subseteq users'[u]
  BY PresentedUsers DEF UInv, JsonRotate, JsonReplay, JsonReuse
<1>2. req' = req
  BY DEF JsonRotate, JsonReplay, JsonReuse
<1>3. CASE JsonRotate(s, t, c)
  <2>1. PICK rec \in Rotations(sess[s], t, c, generated + 1) : sess' = [sess EXCEPT ![s] = rec]
    BY <1>3 DEF JsonRotate
  <2>2. /\ sess[s].current = t /\ sess[s].revoked = "none" /\ sess[s].state = "stored"
        /\ Send(t, generated + 1) /\ reuse' = reuse
    BY <1>3 DEF JsonRotate, Holds, Live
  <2>3. generated + 1 \in Tokens /\ t < generated + 1
    <3>1. generated + 1 \in Tokens /\ generated \in Nat
      BY <1>3, GeneratedTokens DEF JsonRotate, UInv, RInv, TypeOK
    <3>2. t \in 1..generated
      BY <2>2 DEF UInv, RInv, SessionsOK, Generated
    <3> QED
      BY <3>1, <3>2
  <2> QED
    BY <2>1, <2>2, <2>3, <1>1, <1>2, RotateRemembers
<1>4. CASE JsonReplay(s, t, c)
  <2>1. exchanged' = exchanged /\ sess' = sess /\ reuse' = reuse
    BY <1>4, SealedSent DEF JsonReplay, UInv
  <2>2. \A u \in Sessions : Continues(sess'[u], sess[u])
    BY <2>1, UnrevisedContinues DEF UInv
  <2> QED
    BY <2>1, <2>2, <1>1, <1>2, ContinuesKeeps
<1>5. CASE JsonReuse(s, t, c)
  <2> DEFINE rec == Revoked(sess[s], "refresh_token_reuse")
  <2>1. "refresh_token_reuse" \in Revocation \ {"none"}
    BY DEF Revocation
  <2>2. Continues(rec, sess[s]) /\ rec.revoked # "none"
    BY <2>1, RevokedContinues DEF UInv
  <2> HIDE DEF rec
  <2>3. /\ sess' = [sess EXCEPT ![s] = rec] /\ exchanged' = exchanged
        /\ reuse' = reuse \cup {t} /\ t \in sess[s].previous
    BY <1>5 DEF JsonReuse, TellReuse, Remembers, rec
  <2>4. \A u \in Sessions : Continues(sess'[u], sess[u])
    BY <2>2, <2>3, OneContinues DEF UInv
  <2>5. /\ exchanged[t] # {}
        /\ \A u \in Sessions : t \in sess[u].previous => u = s
    BY <2>3 DEF UInv, RememberedOK
  <2>6. sess'[s].revoked # "none"
    BY <2>2, <2>3 DEF UInv, RInv, TypeOK
  <2>7. \A v \in reuse' \ reuse :
          /\ exchanged[v] # {}
          /\ \A u \in Sessions : v \in sess[u].previous => sess'[u].revoked # "none"
    BY <2>3, <2>5, <2>6
  <2> QED
    BY <2>3, <2>4, <2>7, <1>1, <1>2, ContinuesKeeps
<1> QED
  BY <1>3, <1>4, <1>5

\* A request takes its next step.
LEMMA RequestGoes ==
    ASSUME RInv, NEW r \in Requests, NEW next, req' = [req EXCEPT ![r] = next]
    PROVE  req'[r] = next /\ \A q \in Requests \ {r} : req'[q] = req[q]
BY DEF RInv, TypeOK

LEMMA SwapReuses ==
    ASSUME UInv, RInv', NEW r \in Requests, RefreshSwap(r)
    PROVE  UInv'
<1> DEFINE s == req[r].session
           t == req[r].token
           c == req[r].client
           fresh == req[r].fresh
<1>1. /\ s \in Sessions /\ t \in Tokens /\ c \in Clients /\ fresh \in Tokens
      /\ t < fresh
  BY DEF RefreshSwap, UInv, AnswersOK, AnswerOK, RInv, RequestsOK, RequestOK
<1>2. PICK rec \in Rotations(sess[s], t, c, fresh) : sess' = [sess EXCEPT ![s] = rec]
  BY DEF RefreshSwap
<1>3. /\ sess[s].state = "stored" /\ sess[s].current = t /\ sess[s].revoked = "none"
      /\ Send(t, fresh)
      /\ UNCHANGED <<reuse, users>>
  BY DEF RefreshSwap, Swappable
<1>4. \A q \in Requests : req'[q] = req[q] \/ req'[q].step = "idle"
  BY EndKeeps DEF RefreshSwap, UInv
<1>5. \A u \in Sessions : users[u] \subseteq users'[u]
  BY <1>3
<1> HIDE DEF s, t, c, fresh
<1> QED
  BY <1>1, <1>2, <1>3, <1>4, <1>5, RotateRemembers

LEMMA RefreshReuses ==
    ASSUME UInv, RInv', NEW r \in Requests,
           \/ \E s \in Sessions, t \in Tokens, c \in Clients : RefreshFound(r, s, t, c)
           \/ \E t \in Tokens, c \in Clients : RefreshMissed(r, t, c)
           \/ \E s \in Sessions : RefreshReplay(r, s) \/ RefreshReused(r, s)
           \/ RefreshOvertaken(r) \/ RefreshInvalid(r) \/ RefreshRevoke(r)
           \/ RefreshFail(r)
    PROVE  UInv'
<1>1. req[r] \in Request /\ RequestOK(req[r]) /\ AnswerOK(req[r]) /\ RInv
  BY DEF UInv, AnswersOK, RInv, TypeOK, RequestsOK
<1>2. ASSUME sess' = sess, exchanged' = exchanged, reuse' = reuse,
             \A s \in Sessions : users[s] \subseteq users'[s],
             \A q \in Requests :
                 req'[q] = req[q] \/ req'[q].step = "idle" \/ AnswerOK(req[q])'
      PROVE  UInv'
  <2>1. \A s \in Sessions : Continues(sess'[s], sess[s])
    BY <1>1, <1>2, UnrevisedContinues
  <2> QED
    BY <1>2, <2>1, ContinuesKeeps
<1>3. ASSUME NEW s \in Sessions, NEW t \in Tokens, NEW c \in Clients,
             RefreshFound(r, s, t, c)
      PROVE  UInv'
  <2> DEFINE next == [step |-> "found", token |-> t, client |-> c,
                      session |-> s, fresh |-> generated + 1]
  <2>1. t < generated + 1
    <3>1. t \in 1..generated /\ generated \in Nat
      BY <1>1, <1>3 DEF RefreshFound, Holds, RInv, TypeOK, SessionsOK, Generated
    <3> QED
      BY <3>1
  <2>2. next.step = "found" /\ next.token < next.fresh
    BY <2>1
  <2> HIDE DEF next
  <2>3. req' = [req EXCEPT ![r] = next] /\ UNCHANGED <<sess, exchanged, reuse>>
    BY <1>3 DEF RefreshFound, next
  <2>4. req'[r] = next /\ \A q \in Requests \ {r} : req'[q] = req[q]
    BY <1>1, <2>3, RequestGoes
  <2>5. AnswerOK(req[r])'
    BY <2>2, <2>4 DEF AnswerOK
  <2>6. \A u \in Sessions : users[u] \subseteq users'[u]
    BY <1>1, <1>3, PresentedUsers DEF RefreshFound
  <2> QED
    BY <2>3, <2>4, <2>5, <2>6, <1>2
<1>4. ASSUME NEW t, NEW c,
             req' = [req EXCEPT ![r] = [Idle EXCEPT !.step = "missed", !.token = t,
                                                    !.client = c]],
             UNCHANGED <<sess, exchanged, reuse, users>>
      PROVE  UInv'
  <2> DEFINE next == [Idle EXCEPT !.step = "missed", !.token = t, !.client = c]
  <2>1. next.step = "missed"
    BY DEF Idle
  <2> HIDE DEF next
  <2>2. req' = [req EXCEPT ![r] = next]
    BY <1>4 DEF next
  <2>3. req'[r] = next /\ \A q \in Requests \ {r} : req'[q] = req[q]
    BY <1>1, <2>2, RequestGoes
  <2>4. AnswerOK(req[r])'
    BY <2>1, <2>3 DEF AnswerOK
  <2> QED
    BY <2>3, <2>4, <1>2, <1>4
<1>5. ASSUME NEW t \in Tokens, NEW c \in Clients, RefreshMissed(r, t, c) PROVE UInv'
  BY <1>4, <1>5 DEF RefreshMissed
<1>6. CASE RefreshOvertaken(r)
  BY <1>4, <1>6 DEF RefreshOvertaken
<1>7. ASSUME NEW s \in Sessions, RefreshReplay(r, s) PROVE UInv'
  <2>1. req[r].token \in Tokens /\ req[r].client \in Clients
    BY <1>1, <1>7 DEF RequestOK, RefreshReplay
  <2>2. exchanged' = exchanged /\ UNCHANGED <<sess, reuse>>
    BY <1>1, <1>7, <2>1, SealedSent DEF RefreshReplay
  <2>3. \A u \in Sessions : users[u] \subseteq users'[u]
    BY <1>1, <1>7, <2>1, PresentedUsers DEF RefreshReplay
  <2>4. \A q \in Requests : req'[q] = req[q] \/ req'[q].step = "idle"
    BY <1>1, <1>7, EndKeeps DEF RefreshReplay
  <2> QED
    BY <2>2, <2>3, <2>4, <1>2
<1>8. ASSUME NEW s \in Sessions, RefreshReused(r, s) PROVE UInv'
  <2> DEFINE t == req[r].token
             c == req[r].client
             next == [req[r] EXCEPT !.step = "reused", !.session = s]
  <2>1. /\ t \in Tokens /\ c \in Clients /\ t \in sess[s].previous
        /\ ~Replayable(sess[s], t, c)
    BY <1>1, <1>8 DEF RequestOK, RefreshReused, Remembers
  <2>2. next.step = "reused" /\ next.token = t /\ next.client = c /\ next.session = s
    BY <1>1 DEF Request
  <2>3. req' = [req EXCEPT ![r] = next] /\ UNCHANGED <<sess, exchanged, reuse>>
    BY <1>8 DEF RefreshReused
  <2>4. Presented(s, c)
    BY <1>8 DEF RefreshReused
  <2> HIDE DEF next, t, c
  <2>5. c \in users'[s] /\ \A u \in Sessions : users[u] \subseteq users'[u]
    BY <1>1, <2>1, <2>4, PresentedUsers
  <2>6. req'[r] = next /\ \A q \in Requests \ {r} : req'[q] = req[q]
    BY <1>1, <2>3, RequestGoes
  <2>7. /\ exchanged[t] # {}
        /\ \A u \in Sessions : t \in sess[u].previous => u = s
    BY <2>1 DEF UInv, RememberedOK
  <2>8. Refused(sess[s], t, c)
    BY <2>1 DEF Refused, Replayable
  <2>9. AnswerOK(req[r])'
    BY <2>2, <2>3, <2>5, <2>6, <2>7, <2>8 DEF AnswerOK
  <2> QED
    BY <2>3, <2>5, <2>6, <2>9, <1>2
<1>9. CASE RefreshInvalid(r) \/ RefreshFail(r)
  <2>1. UNCHANGED <<sess, exchanged, reuse, users>>
    BY <1>9 DEF RefreshInvalid, RefreshFail
  <2>2. \A q \in Requests : req'[q] = req[q] \/ req'[q].step = "idle"
    BY <1>1, <1>9, EndKeeps DEF RefreshInvalid, RefreshFail
  <2> QED
    BY <2>1, <2>2, <1>2
<1>10. CASE RefreshRevoke(r)
  <2> DEFINE s == req[r].session
             t == req[r].token
             rec == IF Revocable(sess[s], t)
                    THEN Revoked(sess[s], "refresh_token_reuse") ELSE sess[s]
  <2>1. /\ s \in Sessions /\ exchanged[t] # {}
        /\ \A u \in Sessions : t \in sess[u].previous => u = s
    BY <1>1, <1>10 DEF RequestOK, AnswerOK, RefreshRevoke
  <2>2. /\ \A q \in Requests : req'[q] = req[q] \/ req'[q].step = "idle"
        /\ UNCHANGED <<exchanged, users>>
        /\ reuse' = reuse \cup {t}
        /\ sess' = [sess EXCEPT ![s] = rec]
    BY <1>1, <1>10, EndKeeps DEF RefreshRevoke, TellReuse
  <2>3. /\ Continues(rec, sess[s])
        /\ t \in sess[s].previous => rec.revoked # "none"
    <3>1. CASE Revocable(sess[s], t)
      <4>1. "refresh_token_reuse" \in Revocation \ {"none"}
        BY DEF Revocation
      <4> QED
        BY <1>1, <2>1, <3>1, <4>1, RevokedContinues
    <3>2. CASE ~Revocable(sess[s], t)
      <4>1. sess[s].state = "stored" => sess[s].revoked # "none"
        BY <3>2 DEF Revocable
      <4>2. sess[s].previous # {} => sess[s].state = "stored"
        BY <2>1 DEF UInv, RememberedOK
      <4> QED
        BY <3>2, <4>1, <4>2 DEF Continues
    <3> QED
      BY <3>1, <3>2
  <2> HIDE DEF s, t, rec
  <2>4. \A u \in Sessions : Continues(sess'[u], sess[u])
    BY <1>1, <2>1, <2>2, <2>3, OneContinues
  <2>5. sess'[s] = rec
    BY <1>1, <2>1, <2>2 DEF RInv, TypeOK
  <2>6. \A v \in reuse' \ reuse :
          /\ exchanged[v] # {}
          /\ \A u \in Sessions : v \in sess[u].previous => sess'[u].revoked # "none"
    BY <2>1, <2>2, <2>3, <2>5
  <2> QED
    BY <2>2, <2>4, <2>6, ContinuesKeeps
<1> QED
  BY <1>3, <1>5, <1>6, <1>7, <1>8, <1>9, <1>10

LEMMA EndingReuses ==
    ASSUME UInv, RInv',
           \/ \E s \in Sessions : Logout(s) \/ Prune(s) \/ Expire(s) \/ GraceEnds(s)
           \/ \E S \in SUBSET Sessions : RevokeAll(S)
    PROVE  UInv'
<1>1. /\ UNCHANGED <<req, exchanged, reuse, users>> /\ RInv
  BY DEF Logout, Prune, Expire, GraceEnds, RevokeAll, UInv
<1>2. ASSUME \A s \in Sessions : Continues(sess'[s], sess[s]) PROVE UInv'
  BY <1>1, <1>2, ContinuesKeeps
<1>3. ASSUME NEW s \in Sessions, Logout(s) PROVE UInv'
  <2>1. "logout" \in Revocation \ {"none"}
    BY DEF Revocation
  <2> QED
    BY <1>1, <1>2, <1>3, <2>1, RevokedContinues, OneContinues DEF Logout
<1>4. ASSUME NEW s \in Sessions, Expire(s) PROVE UInv'
  <2> DEFINE rec == [sess[s] EXCEPT !.expired = TRUE]
  <2>1. sess[s] \in Session
    BY <1>1 DEF RInv, TypeOK
  <2>2. Continues(rec, sess[s])
    BY <2>1 DEF Session, Continues
  <2> HIDE DEF rec
  <2>3. sess' = [sess EXCEPT ![s] = rec]
    BY <1>4 DEF Expire, rec
  <2> QED
    BY <1>1, <1>2, <2>2, <2>3, OneContinues
<1>5. ASSUME NEW s \in Sessions, GraceEnds(s) PROVE UInv'
  <2> DEFINE rec == [sess[s] EXCEPT !.replay = [sess[s].replay EXCEPT !.open = FALSE]]
  <2>1. sess[s] \in Session /\ sess[s].replay \in Replay
    BY <1>1 DEF RInv, TypeOK, Session
  <2>2. Continues(rec, sess[s])
    BY <2>1 DEF Session, Replay, Continues
  <2> HIDE DEF rec
  <2>3. sess' = [sess EXCEPT ![s] = rec]
    BY <1>5 DEF GraceEnds, rec
  <2> QED
    BY <1>1, <1>2, <2>2, <2>3, OneContinues
<1>6. ASSUME NEW S \in SUBSET Sessions, RevokeAll(S) PROVE UInv'
  <2>1. "all" \in Revocation \ {"none"}
    BY DEF Revocation
  <2>2. \A s \in Sessions : sess'[s] = IF s \in S THEN Revoked(sess[s], "all") ELSE sess[s]
    BY <1>6 DEF RevokeAll
  <2>3. \A s \in Sessions : Continues(sess[s], sess[s])
    BY DEF Continues
  <2> QED
    BY <1>1, <1>2, <2>1, <2>2, <2>3, RevokedContinues
<1>7. ASSUME NEW s \in Sessions, Prune(s) PROVE UInv'
  <2> DEFINE rec == [Absent EXCEPT !.state = "deleted", !.current = sess[s].current]
  <2>1. rec.previous = {} /\ InOrder(rec)
    BY DEF Absent, NoReplay, InOrder
  <2>2. sess' = [sess EXCEPT ![s] = rec] /\ \A r \in Requests : req[r].step = "idle"
    BY <1>7 DEF Prune
  <2> HIDE DEF rec
  <2>3. sess'[s] = rec /\ \A u \in Sessions \ {s} : sess'[u] = sess[u]
    BY <1>1, <2>2 DEF RInv, TypeOK
  <2>4. RememberedOK'
    BY <1>1, <2>1, <2>3 DEF UInv, RememberedOK
  <2>5. AnswersOK'
    BY <1>1, <2>2 DEF AnswersOK, AnswerOK
  <2>6. ReuseOK'
    BY <1>1, <2>1, <2>3 DEF UInv, ReuseOK
  <2> QED
    BY <2>4, <2>5, <2>6 DEF UInv
<1> QED
  BY <1>3, <1>4, <1>5, <1>6, <1>7

LEMMA InitUInv == Init => UInv
<1> SUFFICES ASSUME Init PROVE UInv
  OBVIOUS
<1>1. RInv
  BY InitRInv
<1>2. RememberedOK
  BY DEF Init, RememberedOK, InOrder, Absent, NoReplay
<1>3. AnswersOK
  BY IdleTyped DEF Init, AnswersOK, AnswerOK
<1>4. ReuseOK
  BY DEF Init, ReuseOK
<1> QED
  BY <1>1, <1>2, <1>3, <1>4 DEF UInv

LEMMA NextUInv == UInv /\ [Next]_vars => UInv'
<1> SUFFICES ASSUME UInv, [Next]_vars PROVE UInv'
  OBVIOUS
<1>1. RInv'
  BY NextRInv DEF UInv
<1>2. CASE UNCHANGED vars
  BY <1>2, <1>1 DEF vars, UInv, RememberedOK, AnswersOK, AnswerOK, ReuseOK
<1>3. ASSUME NEW s \in Sessions, Create(s) PROVE UInv'
  BY <1>1, <1>3, CreateReuse
<1>4. ASSUME NEW s \in Sessions, NEW t \in Tokens, NEW c \in Clients,
             JsonRotate(s, t, c) \/ JsonReplay(s, t, c) \/ JsonReuse(s, t, c)
      PROVE  UInv'
  BY <1>1, <1>4, JsonReuses
<1>5. ASSUME NEW t \in Tokens, JsonInvalid(t) PROVE UInv'
  BY <1>2, <1>5 DEF JsonInvalid
<1>6. ASSUME NEW r \in Requests, NEW s \in Sessions, NEW t \in Tokens,
             RefreshEnded(r, s, t)
      PROVE  UInv'
  BY <1>2, <1>6 DEF RefreshEnded
<1>7. ASSUME NEW r \in Requests, RefreshSwap(r) PROVE UInv'
  BY <1>1, <1>7, SwapReuses
<1>8. ASSUME NEW r \in Requests,
             \/ \E s \in Sessions, t \in Tokens, c \in Clients : RefreshFound(r, s, t, c)
             \/ \E t \in Tokens, c \in Clients : RefreshMissed(r, t, c)
             \/ \E s \in Sessions : RefreshReplay(r, s) \/ RefreshReused(r, s)
             \/ RefreshOvertaken(r) \/ RefreshInvalid(r) \/ RefreshRevoke(r)
             \/ RefreshFail(r)
      PROVE  UInv'
  BY <1>1, <1>8, RefreshReuses
<1>9. CASE \/ \E s \in Sessions : Logout(s) \/ Prune(s) \/ Expire(s) \/ GraceEnds(s)
           \/ \E S \in SUBSET Sessions : RevokeAll(S)
  BY <1>1, <1>9, EndingReuses
<1> QED
  BY <1>2, <1>3, <1>4, <1>5, <1>6, <1>7, <1>8, <1>9 DEF Next

\* rotateSession: a client that is told its session was revoked for reuse can
\* rely on it, whatever ran between the look at the session and its update.
THEOREM ReuseEndsTheSession == Spec => []ReuseEndsSession
<1>1. UInv => ReuseEndsSession
  BY DEF UInv, ReuseOK, ReuseEndsSession, Remembers
<1> QED
  BY <1>1, InitUInv, NextUInv, PTL DEF Spec

-----------------------------------------------------------------------------
(* Only a reuse is answered by ending the session for it.                  *)

LEMMA RevisedRecord ==
    ASSUME RInv, NEW s \in Sessions, NEW u \in Sessions, NEW rec,
           sess' = [sess EXCEPT ![u] = rec],
           rec.revoked # "refresh_token_reuse" \/ rec.revoked = sess[u].revoked,
           sess[s].revoked = "none", sess'[s].revoked = "refresh_token_reuse"
    PROVE  FALSE
BY DEF RInv, TypeOK

\* A session that remembers one token remembers the last rotated.
LEMMA OnlyTheLast ==
    ASSUME UInv, NEW s \in Sessions, Cardinality(sess[s].previous) = 1
    PROVE  sess[s].previous = {sess[s].replay.of}
<1>1. /\ sess[s].previous \subseteq 1..MaxTokens /\ MaxTokens \in Nat
  BY RecordTyped, RefreshAssumption DEF UInv, Tokens
<1>2. IsFiniteSet(sess[s].previous)
  <2>1. 1 \in Int /\ MaxTokens \in Int
    BY <1>1
  <2>2. IsFiniteSet(1..MaxTokens)
    BY <2>1, FS_Interval
  <2>3. sess[s].previous \in SUBSET (1..MaxTokens)
    BY <1>1
  <2> QED
    BY <2>2, <2>3, FS_Subset
<1>3. PICK p : sess[s].previous = {p}
  BY <1>2, FS_Singleton
<1> QED
  BY <1>3 DEF UInv, RememberedOK, InOrder

LEMMA DuplicateStep ==
    ASSUME UInv, Next, NEW s \in Sessions,
           sess[s].revoked = "none", sess'[s].revoked = "refresh_token_reuse",
           Cardinality(sess[s].previous) = 1, sess[s].replay.open
    PROVE  users'[s] # {sess[s].replay.by}
<1>1. RInv /\ sess[s].previous = {sess[s].replay.of}
  BY OnlyTheLast DEF UInv
<1>2. ASSUME NEW u \in Sessions, NEW t \in Tokens, NEW c \in Clients, JsonReuse(u, t, c)
      PROVE  users'[s] # {sess[s].replay.by}
  <2>1. u = s
    BY <1>1, <1>2 DEF JsonReuse, RInv, TypeOK
  <2>2. t = sess[s].replay.of /\ c # sess[s].replay.by
    BY <1>1, <1>2, <2>1 DEF JsonReuse, Remembers, Replayable
  <2>3. c \in users'[s]
    BY <1>1, <1>2, <2>1, PresentedUsers DEF JsonReuse
  <2> QED
    BY <2>2, <2>3
<1>3. ASSUME NEW r \in Requests, RefreshRevoke(r)
      PROVE  users'[s] # {sess[s].replay.by}
  <2>1. AnswerOK(req[r]) /\ users' = users /\ req[r].step = "reused"
    BY <1>3 DEF UInv, AnswersOK, RefreshRevoke
  <2>2. req[r].session = s
    BY <1>1, <1>3 DEF RefreshRevoke, RInv, TypeOK
  <2>3. /\ req[r].client \in users[s]
        /\ Refused(sess[s], req[r].token, req[r].client)
    BY <2>1, <2>2 DEF AnswerOK
  <2>4. req[r].client # sess[s].replay.by
    BY <1>1, <2>3 DEF Refused
  <2> QED
    BY <2>1, <2>3, <2>4
<1>4. ASSUME sess' = sess PROVE FALSE
  BY <1>4
<1>5. ASSUME NEW u \in Sessions, NEW t \in Tokens, NEW c \in Clients,
             NEW fresh \in Tokens, NEW rec \in Rotations(sess[u], t, c, fresh),
             sess' = [sess EXCEPT ![u] = rec]
      PROVE  FALSE
  <2>1. sess[u] \in Session
    BY <1>1 DEF RInv, TypeOK
  <2>2. rec.revoked = sess[u].revoked
    BY <2>1, RotationTyped
  <2> QED
    BY <1>1, <1>5, <2>2, RevisedRecord
<1>6. ASSUME NEW u \in Sessions, NEW t \in Tokens, NEW c \in Clients, JsonRotate(u, t, c)
      PROVE  FALSE
  BY <1>1, <1>5, <1>6, GeneratedTokens DEF JsonRotate
<1>7. ASSUME NEW r \in Requests, RefreshSwap(r) PROVE FALSE
  <2>1. /\ req[r].session \in Sessions /\ req[r].token \in Tokens
        /\ req[r].client \in Clients /\ req[r].fresh \in Tokens
    BY <1>1, <1>7 DEF RefreshSwap, RInv, RequestsOK, RequestOK
  <2> QED
    BY <1>5, <1>7, <2>1 DEF RefreshSwap
<1>8. ASSUME NEW u \in Sessions, Create(u) PROVE FALSE
  <2> DEFINE rec == [Absent EXCEPT !.state = "stored", !.current = generated + 1]
  <2>1. rec.revoked = "none"
    BY DEF Absent
  <2>2. sess' = [sess EXCEPT ![u] = rec]
    BY <1>8 DEF Create
  <2> HIDE DEF rec
  <2> QED
    BY <1>1, <2>1, <2>2, RevisedRecord
<1>9. ASSUME NEW u \in Sessions, Prune(u) PROVE FALSE
  <2> DEFINE rec == [Absent EXCEPT !.state = "deleted", !.current = sess[u].current]
  <2>1. rec.revoked = "none"
    BY DEF Absent
  <2>2. sess' = [sess EXCEPT ![u] = rec]
    BY <1>9 DEF Prune
  <2> HIDE DEF rec
  <2> QED
    BY <1>1, <2>1, <2>2, RevisedRecord
<1>10. ASSUME NEW u \in Sessions, Logout(u) PROVE FALSE
  <2>1. "logout" \in Revocation
    BY DEF Revocation
  <2>2. Revoked(sess[u], "logout").revoked = "logout"
    BY <1>1, <2>1, RevokedRecord
  <2> QED
    BY <1>1, <1>10, <2>2, RevisedRecord DEF Logout
<1>11. ASSUME NEW u \in Sessions, Expire(u) PROVE FALSE
  <2> DEFINE rec == [sess[u] EXCEPT !.expired = TRUE]
  <2>1. rec.revoked = sess[u].revoked
    BY <1>1 DEF RInv, TypeOK, Session
  <2>2. sess' = [sess EXCEPT ![u] = rec]
    BY <1>11 DEF Expire
  <2> HIDE DEF rec
  <2> QED
    BY <1>1, <2>1, <2>2, RevisedRecord
<1>12. ASSUME NEW u \in Sessions, GraceEnds(u) PROVE FALSE
  <2> DEFINE rec == [sess[u] EXCEPT !.replay = [sess[u].replay EXCEPT !.open = FALSE]]
  <2>1. rec.revoked = sess[u].revoked
    BY <1>1 DEF RInv, TypeOK, Session
  <2>2. sess' = [sess EXCEPT ![u] = rec]
    BY <1>12 DEF GraceEnds
  <2> HIDE DEF rec
  <2> QED
    BY <1>1, <2>1, <2>2, RevisedRecord
<1>13. ASSUME NEW S \in SUBSET Sessions, RevokeAll(S) PROVE FALSE
  <2>1. "all" \in Revocation
    BY DEF Revocation
  <2>2. Revoked(sess[s], "all").revoked = "all"
    BY <1>1, <2>1, RevokedRecord
  <2> QED
    BY <1>13, <2>2 DEF RevokeAll
<1>14. ASSUME NEW u \in Sessions, NEW t \in Tokens, NEW c \in Clients, JsonReplay(u, t, c)
       PROVE  FALSE
  BY <1>4, <1>14 DEF JsonReplay
<1>15. ASSUME NEW r \in Requests, NEW u \in Sessions, NEW t \in Tokens, NEW c \in Clients,
              RefreshFound(r, u, t, c)
       PROVE  FALSE
  BY <1>4, <1>15 DEF RefreshFound
<1>16. ASSUME NEW r \in Requests, NEW u \in Sessions,
              RefreshReplay(r, u) \/ RefreshReused(r, u)
       PROVE  FALSE
  BY <1>4, <1>16 DEF RefreshReplay, RefreshReused
<1>17. ASSUME NEW r \in Requests, RefreshOvertaken(r) \/ RefreshInvalid(r) \/ RefreshFail(r)
       PROVE  FALSE
  BY <1>4, <1>17 DEF RefreshOvertaken, RefreshInvalid, RefreshFail
<1>18. ASSUME NEW r \in Requests, NEW t \in Tokens, NEW c \in Clients,
              RefreshMissed(r, t, c)
       PROVE  FALSE
  BY <1>4, <1>18 DEF RefreshMissed
<1>19. ASSUME NEW r \in Requests, NEW u \in Sessions, NEW t \in Tokens,
              RefreshEnded(r, u, t)
       PROVE  FALSE
  BY <1>4, <1>19 DEF RefreshEnded, vars
<1>20. ASSUME NEW t \in Tokens, JsonInvalid(t) PROVE FALSE
  BY <1>4, <1>20 DEF JsonInvalid, vars
<1>21. CASE \E u \in Sessions, t \in Tokens, c \in Clients :
                \/ JsonRotate(u, t, c) \/ JsonReplay(u, t, c) \/ JsonReuse(u, t, c)
  BY <1>2, <1>6, <1>14, <1>21
<1>22. CASE \/ \E u \in Sessions : Logout(u) \/ Prune(u) \/ Expire(u) \/ GraceEnds(u) \/ Create(u)
            \/ \E S \in SUBSET Sessions : RevokeAll(S)
            \/ \E t \in Tokens : JsonInvalid(t)
  BY <1>8, <1>9, <1>10, <1>11, <1>12, <1>13, <1>20, <1>22
<1>23. CASE \E r \in Requests :
                \/ RefreshSwap(r) \/ RefreshRevoke(r)
                \/ RefreshOvertaken(r) \/ RefreshInvalid(r) \/ RefreshFail(r)
  BY <1>3, <1>7, <1>17, <1>23
<1>24. CASE \E r \in Requests, u \in Sessions :
                \/ RefreshReplay(r, u) \/ RefreshReused(r, u)
                \/ \E t \in Tokens : RefreshEnded(r, u, t)
  BY <1>16, <1>19, <1>24
<1>25. CASE \E r \in Requests, t \in Tokens, c \in Clients :
                \/ RefreshMissed(r, t, c)
                \/ \E u \in Sessions : RefreshFound(r, u, t, c)
  BY <1>15, <1>18, <1>25
<1> QED
  BY <1>21, <1>22, <1>23, <1>24, <1>25 DEF Next

\* "Real clients can issue two refreshes concurrently or retry after losing the
\* first response": one client's repeats of a first rotation, within the retry
\* window, never end the session for reuse, in whatever order they are served.
THEOREM DuplicatesKeepTheSession == Spec => DuplicateKeepsSession
<1> DEFINE A == \A s \in Sessions :
                    /\ sess[s].revoked = "none"
                    /\ sess'[s].revoked = "refresh_token_reuse"
                    /\ Cardinality(sess[s].previous) = 1
                    /\ sess[s].replay.open
                    => users'[s] # {sess[s].replay.by}
<1>1. UInv /\ [Next]_vars => [A]_vars
  <2>1. ASSUME UInv, Next PROVE A
    BY <2>1, DuplicateStep
  <2> QED
    BY <2>1
<1> QED
  BY <1>1, InitUInv, NextUInv, PTL DEF Spec, DuplicateKeepsSession
=============================================================================
