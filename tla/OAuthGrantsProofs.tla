-------------------------- MODULE OAuthGrantsProofs --------------------------
(***************************************************************************)
(* Safety of OAuthGrants on both stores, for any number of connections,    *)
(* authorizations, codes, grants, callers, requests and tokens.            *)
(*                                                                         *)
(* A code the client was sent is of an authorization that is over, and no  *)
(* other such code is; a grant is of a code that is over.  A token that a  *)
(* grant accepts was never exchanged, and its sealed answer is what its    *)
(* last token was exchanged for.  On MongoDB the copy of a grant that a    *)
(* mutation holds is the grant, unless the user revoked it meanwhile.      *)
(***************************************************************************)
EXTENDS OAuthGrants, FiniteSetTheorems, TLAPS

Generated == 1..generated

KnownOK ==
    /\ \A k \in known :
          /\ code[k].status # "absent"
          /\ code[k].of \in Authorizations
          /\ auth[code[k].of].status = "over"
    /\ \A k, l \in known : code[k].of = code[l].of => k = l

\* What a mutation that read the grant record rec may hold: a revocation by the
\* user is no revision.
CopyOf(copy, rec) ==
    \/ copy = rec
    \/ rec.revoked = "user" /\ copy = [rec EXCEPT !.revoked = "none"]

RequestOK(q) ==
    /\ q.step \in {"resumed", "checked"} => q.at \in Authorizations
    /\ q.step = "exchange" => q.at \in known
    /\ q.step \in Mutating \cup {"admit"} => q.at \in Grants /\ Stored(q.at)
    /\ q.step = "refresh" => q.token \in sent[q.at]
    /\ q.step \in Mutating /\ store = "mongo" /\ q.copy # None => CopyOf(q.copy, grant[q.at])

RequestsOK == \A r \in Requests : RequestOK(req[r])

\* A grant nobody created has nothing to answer.
UnstoredOK(g) ==
    /\ grant[g].current = NoToken
    /\ grant[g].revoked = "none"
    /\ grant[g].replay.of = NoToken
    /\ sent[g] = {}

StoredOK(g) ==
    /\ grant[g].of \in known
    /\ code[grant[g].of].status = "over"
    /\ sent[g] \subseteq Generated
    /\ grant[g].current \in sent[g]
    /\ \A t \in sent[g] : t <= grant[g].current
    /\ grant[g].access \subseteq sent[g] \ {grant[g].current}
    /\ Newest(KeepAccess + 2, Unexpired(sent[g]))
           \subseteq {grant[g].current} \cup grant[g].access
    /\ grant[g].replay.of # NoToken =>
           /\ exchanged[grant[g].replay.of] = {grant[g].replay.sealed}
           /\ grant[g].replay.sealed = grant[g].current

GrantsOK == \A g \in Grants : IF Stored(g) THEN StoredOK(g) ELSE UnstoredOK(g)

OneGrantPerCode ==
    \A g, h \in Grants : Stored(g) /\ Stored(h) /\ grant[g].of = grant[h].of => g = h

OneHolder ==
    \A g, h \in Grants : Stored(g) /\ grant[g].current = grant[h].current => g = h

ExchangedOnce ==
    \A t \in Tokens :
        /\ exchanged[t] = {} \/ \E new \in Tokens : exchanged[t] = {new}
        /\ exchanged[t] # {} => t \in Generated /\ \A g \in Grants : grant[g].current # t

OInv ==
    /\ TypeOK
    /\ KnownOK /\ RequestsOK /\ GrantsOK /\ OneGrantPerCode /\ OneHolder /\ ExchangedOnce

-----------------------------------------------------------------------------
(* Types of what the actions put together.                                 *)

LEMMA IdleTyped == Idle \in Request /\ Idle.step = "idle"
BY DEF Idle, Request

LEMMA NoGrantTyped == NoReplay \in Replay /\ NoGrant \in Grant /\ NoGrant.of = None
BY DEF NoReplay, Replay, NoGrant, Grant, Revocation

LEMMA GeneratedTokens ==
    ASSUME OInv
    PROVE  /\ Generated \subseteq Tokens /\ NoToken \notin Tokens
           /\ generated \in Nat /\ lapsed \in Nat /\ lapsed <= generated
           /\ generated < MaxTokens =>
                /\ generated + 1 \in Tokens /\ generated + 1 \notin Generated
                /\ generated + 1 \in 0..MaxTokens
                /\ \A t \in Generated : t < generated + 1 /\ t \in 1..(generated + 1)
                /\ generated + 1 \in 1..(generated + 1)
BY OAuthAssumption DEF OInv, TypeOK, Generated, Tokens, NoToken

LEMMA NewestTyped == \A n, S : Newest(n, S) \subseteq S
BY DEF Newest

\* A mutation holds a copy of a stored grant, true but for a revocation by the user.
LEMMA ViewFacts ==
    ASSUME OInv, NEW r \in Requests, req[r].step \in Mutating, View(r) # None
    PROVE  LET g == req[r].at
           IN  /\ g \in Grants /\ Stored(g) /\ StoredOK(g) /\ grant[g] \in Grant
               /\ View(r) \in Grant
               /\ View(r).of = grant[g].of /\ View(r).current = grant[g].current
               /\ View(r).previous = grant[g].previous /\ View(r).access = grant[g].access
               /\ View(r).replay = grant[g].replay
               /\ \/ View(r).revoked = grant[g].revoked
                  \/ /\ store = "mongo" /\ grant[g].revoked = "user"
                     /\ View(r).revoked = "none"
<1> DEFINE g == req[r].at
<1>1. RequestOK(req[r])
  BY DEF OInv, RequestsOK
<1>2. g \in Grants /\ Stored(g)
  BY <1>1 DEF RequestOK
<1>3. StoredOK(g) /\ grant[g] \in Grant
  BY <1>2 DEF OInv, GrantsOK, TypeOK
<1>4. store # "mongo" => View(r) = grant[g]
  BY DEF View
<1>5. store = "mongo" => CopyOf(View(r), grant[g])
  BY <1>1 DEF View, RequestOK
<1>6. CASE View(r) = grant[g]
  BY <1>2, <1>3, <1>6
<1>7. CASE /\ store = "mongo" /\ grant[g].revoked = "user"
           /\ View(r) = [grant[g] EXCEPT !.revoked = "none"]
  <2>1. \A rec \in Grant :
           LET new == [rec EXCEPT !.revoked = "none"]
           IN  /\ new \in Grant
               /\ new.of = rec.of /\ new.current = rec.current
               /\ new.previous = rec.previous /\ new.access = rec.access
               /\ new.replay = rec.replay /\ new.revoked = "none"
    BY DEF Grant, Revocation
  <2> QED
    BY <2>1, <1>2, <1>3, <1>7
<1> QED
  BY <1>4, <1>5, <1>6, <1>7 DEF CopyOf

-----------------------------------------------------------------------------
\* Connections, authorizations and codes move on, and requests go to steps they are
\* fit for.
LEMMA FlowKeeps ==
    ASSUME OInv, KnownOK', known \subseteq known',
           TypeOK',
           \A k \in Codes : code[k].status = "over" => code'[k].status = "over",
           \A r \in Requests : req'[r] = req[r] \/ RequestOK(req'[r]),
           UNCHANGED <<store, grant, lapsed, generated, history>>
    PROVE  OInv'
<1>1. Generated' = Generated
  BY DEF Generated
<1>2. RequestsOK'
  <2> SUFFICES ASSUME NEW r \in Requests PROVE RequestOK(req[r])'
    BY DEF RequestsOK
  <2>1. RequestOK(req'[r])
    BY DEF OInv, RequestsOK
  <2> QED
    BY <2>1 DEF RequestOK, Stored, history
<1>3. GrantsOK'
  <2> SUFFICES ASSUME NEW g \in Grants
               PROVE  IF Stored(g)' THEN StoredOK(g)' ELSE UnstoredOK(g)'
    BY DEF GrantsOK
  <2>1. Stored(g)' <=> Stored(g)
    BY DEF Stored
  <2>2. CASE Stored(g)
    <3>1. StoredOK(g)
      BY <2>2 DEF OInv, GrantsOK
    <3>2. grant[g].of \in Codes
      BY <3>1 DEF StoredOK, OInv, TypeOK
    <3>3. StoredOK(g)'
      BY <3>1, <3>2, <1>1 DEF StoredOK, Unexpired, history
    <3> QED
      BY <3>3, <2>1, <2>2
  <2>3. CASE ~Stored(g)
    BY <2>1, <2>3 DEF OInv, GrantsOK, UnstoredOK, history
  <2> QED
    BY <2>2, <2>3
<1>4. OneGrantPerCode' /\ OneHolder'
  BY DEF OInv, OneGrantPerCode, OneHolder, Stored
<1>5. ExchangedOnce'
  BY <1>1 DEF OInv, ExchangedOnce, history
<1> QED
  BY <1>2, <1>3, <1>4, <1>5 DEF OInv

\* A request goes to a step it is fit for, and a connection may change.
LEMMA RequestStepKeeps ==
    ASSUME OInv, NEW r \in Requests, NEW next \in Request, RequestOK(next),
           req' = [req EXCEPT ![r] = next],
           conn' \in [Connections -> {"absent", "enabled", "revoked", "deleted"}],
           UNCHANGED <<fixed, auth, code, known, grant, time, generated, history>>
    PROVE  OInv'
<1>1. /\ req' \in [Requests -> Request] /\ req'[r] = next
      /\ \A q \in Requests \ {r} : req'[q] = req[q]
  BY DEF OInv, TypeOK
<1>2. TypeOK'
  BY <1>1 DEF OInv, TypeOK, fixed, time, history
<1>3. KnownOK'
  BY DEF OInv, KnownOK
<1>4. \A q \in Requests : req'[q] = req[q] \/ RequestOK(req'[q])
  BY <1>1
<1> QED
  BY <1>2, <1>3, <1>4, FlowKeeps DEF fixed, time

LEMMA IdleOK == RequestOK(Idle)
BY IdleTyped DEF RequestOK, Mutating

-----------------------------------------------------------------------------
(* Each action keeps the invariant: connections and authorizations.        *)

LEMMA ConnectionKeeps ==
    ASSUME OInv, NEW c \in Connections,
           \/ CreateConnection(c) \/ EnsureConnection(c)
           \/ RevokeConnection(c) \/ DeleteConnection(c)
    PROVE  OInv'
<1>1. conn' \in [Connections -> {"absent", "enabled", "revoked", "deleted"}]
  <2>1. CASE CreateConnection(c)
    BY <2>1 DEF CreateConnection, Created, OInv, TypeOK
  <2>2. CASE EnsureConnection(c) \/ RevokeConnection(c) \/ DeleteConnection(c)
    BY <2>2 DEF EnsureConnection, RevokeConnection, DeleteConnection, OInv, TypeOK
  <2> QED
    BY <2>1, <2>2
<1>2. UNCHANGED <<fixed, auth, code, known, grant, time, generated, req, history>>
  BY DEF CreateConnection, EnsureConnection, RevokeConnection, DeleteConnection
<1>3. TypeOK'
  BY <1>1, <1>2 DEF OInv, TypeOK, fixed, time, history
<1>4. KnownOK' /\ known' = known /\ code' = code
  BY <1>2 DEF OInv, KnownOK
<1> QED
  BY <1>2, <1>3, <1>4, FlowKeeps DEF fixed, time

LEMMA CountConnectionsKeeps ==
    ASSUME OInv, NEW r \in Requests, CountConnections(r)
    PROVE  OInv'
<1> DEFINE next == [Idle EXCEPT !.step = "create"]
<1>1. next \in Request /\ next.step = "create"
  BY DEF Idle, Request
<1>2. RequestOK(next)
  BY <1>1 DEF RequestOK, Mutating
<1>3. conn' \in [Connections -> {"absent", "enabled", "revoked", "deleted"}]
  BY DEF CountConnections, OInv, TypeOK
<1>4. /\ req' = [req EXCEPT ![r] = next]
      /\ UNCHANGED <<fixed, auth, code, known, grant, time, generated, history>>
  BY DEF CountConnections, Begin
<1> HIDE DEF next
<1> QED
  BY <1>1, <1>2, <1>3, <1>4, RequestStepKeeps

LEMMA InsertConnectionKeeps ==
    ASSUME OInv, NEW r \in Requests, NEW c \in Connections, InsertConnection(r, c)
    PROVE  OInv'
<1>1. conn' \in [Connections -> {"absent", "enabled", "revoked", "deleted"}]
  BY DEF InsertConnection, OInv, TypeOK
<1>2. /\ req' = [req EXCEPT ![r] = Idle]
      /\ UNCHANGED <<fixed, auth, code, known, grant, time, generated, history>>
  BY DEF InsertConnection, End
<1> QED
  BY <1>1, <1>2, IdleTyped, IdleOK, RequestStepKeeps

\* A request goes to a step it is fit for, and that is all.
LEMMA OnlyRequestKeeps ==
    ASSUME OInv, NEW r \in Requests, NEW next \in Request, RequestOK(next),
           req' = [req EXCEPT ![r] = next],
           UNCHANGED <<fixed, flow, grant, time, generated, history>>
    PROVE  OInv'
<1>1. conn' \in [Connections -> {"absent", "enabled", "revoked", "deleted"}]
  BY DEF flow, OInv, TypeOK
<1> QED
  BY <1>1, RequestStepKeeps DEF flow

LEMMA AuthorizationKeeps ==
    ASSUME OInv, NEW a \in Authorizations,
           \/ \E c \in Connections : BeginAuthorization(a, c)
           \/ ExpireAuthorization(a)
    PROVE  OInv'
<1>1. /\ auth' \in [Authorizations -> [status : {"absent", "open", "over"},
                                       connection : Connections \cup {None}]]
      /\ \A b \in Authorizations : auth[b].status = "over" => auth'[b].status = "over"
  <2>1. CASE \E c \in Connections : BeginAuthorization(a, c)
    BY <2>1 DEF BeginAuthorization, OInv, TypeOK
  <2>2. CASE ExpireAuthorization(a)
    BY <2>2 DEF ExpireAuthorization, OInv, TypeOK
  <2> QED
    BY <2>1, <2>2
<1>2. UNCHANGED <<fixed, conn, code, known, grant, time, generated, req, history>>
  BY DEF BeginAuthorization, ExpireAuthorization
<1>3. TypeOK'
  BY <1>1, <1>2 DEF OInv, TypeOK, fixed, time, history
<1>4. KnownOK'
  BY <1>1, <1>2 DEF OInv, KnownOK
<1> QED
  BY <1>2, <1>3, <1>4, FlowKeeps DEF fixed, time

LEMMA ResumeKeeps ==
    ASSUME OInv, NEW r \in Requests, NEW a \in Authorizations, ResumeAuthorization(r, a)
    PROVE  OInv'
<1> DEFINE next == [Idle EXCEPT !.step = "resumed", !.at = a]
<1>1. next \in Request /\ next.step = "resumed" /\ next.at = a
  BY DEF Idle, Request
<1>2. RequestOK(next)
  BY <1>1 DEF RequestOK, Mutating
<1>3. /\ req' = [req EXCEPT ![r] = next]
      /\ UNCHANGED <<fixed, flow, grant, time, generated, history>>
  BY DEF ResumeAuthorization, Begin
<1> HIDE DEF next
<1> QED
  BY <1>1, <1>2, <1>3, OnlyRequestKeeps

LEMMA DenyKeeps ==
    ASSUME OInv, NEW r \in Requests, DenyAuthorization(r)
    PROVE  OInv'
<1>1. req[r].at \in Authorizations
  BY DEF DenyAuthorization, OInv, RequestsOK, RequestOK
<1>2. /\ auth' \in [Authorizations -> [status : {"absent", "open", "over"},
                                       connection : Connections \cup {None}]]
      /\ \A b \in Authorizations : auth[b].status = "over" => auth'[b].status = "over"
  BY <1>1 DEF DenyAuthorization, OInv, TypeOK
<1>3. /\ req' = [req EXCEPT ![r] = Idle]
      /\ UNCHANGED <<fixed, conn, code, known, grant, time, generated, history>>
  BY DEF DenyAuthorization, End
<1>4. /\ req' \in [Requests -> Request]
      /\ \A q \in Requests : req'[q] = req[q] \/ req'[q] = Idle
  BY <1>3, IdleTyped DEF OInv, TypeOK
<1>5. TypeOK'
  BY <1>2, <1>3, <1>4 DEF OInv, TypeOK, fixed, time, history
<1>6. KnownOK'
  BY <1>2, <1>3 DEF OInv, KnownOK
<1> QED
  BY <1>3, <1>4, <1>5, <1>6, IdleOK, FlowKeeps DEF fixed, time

LEMMA CheckConnectionKeeps ==
    ASSUME OInv, NEW r \in Requests, CheckConnection(r)
    PROVE  OInv'
<1> DEFINE next == [req[r] EXCEPT !.step = "checked"]
<1>1. req[r] \in Request /\ req[r].at \in Authorizations
  BY DEF CheckConnection, OInv, TypeOK, RequestsOK, RequestOK
<1>2. next \in Request /\ next.step = "checked" /\ next.at = req[r].at
  BY <1>1 DEF Request
<1>3. RequestOK(next)
  BY <1>1, <1>2 DEF RequestOK, Mutating
<1>4. /\ req' = [req EXCEPT ![r] = next]
      /\ UNCHANGED <<fixed, flow, grant, time, generated, history>>
  BY DEF CheckConnection
<1> HIDE DEF next
<1> QED
  BY <1>2, <1>3, <1>4, OnlyRequestKeeps

\* A code of an authorization that is still open is no code that was sent.
LEMMA CreatedCode ==
    ASSUME OInv, NEW k \in Codes, NEW a \in Authorizations,
           Consumable(a), code[k].status = "absent", CodeCreated(k, a)
    PROVE  /\ k \notin known /\ \A l \in known : code[l].of # a
           /\ code' \in [Codes -> [status : {"absent", "open", "over"},
                                   of : Authorizations \cup {None}]]
           /\ code'[k] = [status |-> "open", of |-> a]
           /\ \A l \in Codes \ {k} : code'[l] = code[l]
BY DEF OInv, KnownOK, TypeOK, Consumable, CodeCreated

LEMMA CreateCodeKeeps ==
    ASSUME OInv, NEW r \in Requests, NEW k \in Codes, CreateCode(r, k)
    PROVE  OInv'
<1> DEFINE a == req[r].at
<1>1. a \in Authorizations /\ known \subseteq Codes
  BY DEF CreateCode, OInv, TypeOK, RequestsOK, RequestOK
<1>2. /\ Consumable(a) /\ code[k].status = "absent" /\ CodeCreated(k, a)
      /\ auth' = [auth EXCEPT ![a].status = "over"]
      /\ known' = known \cup {k}
      /\ req' = [req EXCEPT ![r] = Idle]
      /\ UNCHANGED <<fixed, conn, grant, time, generated, history>>
  BY DEF CreateCode, End
<1>3. /\ k \notin known /\ \A l \in known : code[l].of # a
      /\ code' \in [Codes -> [status : {"absent", "open", "over"},
                              of : Authorizations \cup {None}]]
      /\ code'[k] = [status |-> "open", of |-> a]
      /\ \A l \in Codes \ {k} : code'[l] = code[l]
  BY <1>1, <1>2, CreatedCode
<1>4. /\ auth' \in [Authorizations -> [status : {"absent", "open", "over"},
                                       connection : Connections \cup {None}]]
      /\ auth'[a].status = "over"
      /\ \A b \in Authorizations : auth[b].status = "over" => auth'[b].status = "over"
  BY <1>1, <1>2 DEF OInv, TypeOK
<1>5. /\ req' \in [Requests -> Request]
      /\ \A q \in Requests : req'[q] = req[q] \/ req'[q] = Idle
  BY <1>2, IdleTyped DEF OInv, TypeOK
<1> HIDE DEF a
<1>6. TypeOK'
  BY <1>1, <1>2, <1>3, <1>4, <1>5 DEF OInv, TypeOK, fixed, time, history
<1>7. KnownOK'
  BY <1>1, <1>2, <1>3, <1>4 DEF OInv, KnownOK
<1>8. \A l \in Codes : code[l].status = "over" => code'[l].status = "over"
  BY <1>2, <1>3
<1> QED
  BY <1>2, <1>5, <1>6, <1>7, <1>8, IdleOK, FlowKeeps DEF fixed, time

LEMMA CreateCodeCrashKeeps ==
    ASSUME OInv, NEW r \in Requests, NEW k \in Codes, CreateCodeCrash(r, k)
    PROVE  OInv'
<1> DEFINE a == req[r].at
<1>1. a \in Authorizations /\ known \subseteq Codes
  BY DEF CreateCodeCrash, OInv, TypeOK, RequestsOK, RequestOK
<1>2. /\ Consumable(a) /\ code[k].status = "absent" /\ CodeCreated(k, a)
      /\ req' = [q \in Requests |-> Idle]
      /\ UNCHANGED <<fixed, conn, auth, known, grant, time, generated, history>>
  BY DEF CreateCodeCrash
<1>3. /\ k \notin known
      /\ code' \in [Codes -> [status : {"absent", "open", "over"},
                              of : Authorizations \cup {None}]]
      /\ \A l \in Codes \ {k} : code'[l] = code[l]
  BY <1>1, <1>2, CreatedCode
<1> HIDE DEF a
<1>4. TypeOK'
  BY <1>2, <1>3, IdleTyped DEF OInv, TypeOK, fixed, time, history
<1>5. KnownOK'
  BY <1>1, <1>2, <1>3 DEF OInv, KnownOK
<1>6. /\ \A l \in Codes : code[l].status = "over" => code'[l].status = "over"
      /\ \A q \in Requests : req'[q] = Idle
  BY <1>2, <1>3
<1> QED
  BY <1>2, <1>4, <1>5, <1>6, IdleOK, FlowKeeps DEF fixed, time

LEMMA ExpireCodeKeeps ==
    ASSUME OInv, NEW k \in Codes, ExpireCode(k)
    PROVE  OInv'
<1>1. /\ code' \in [Codes -> [status : {"absent", "open", "over"},
                              of : Authorizations \cup {None}]]
      /\ \A l \in Codes : /\ code'[l].of = code[l].of
                          /\ code[l].status = "over" => code'[l].status = "over"
                          /\ code[l].status # "absent" => code'[l].status # "absent"
  BY DEF ExpireCode, OInv, TypeOK
<1>2. UNCHANGED <<fixed, conn, auth, known, grant, time, generated, req, history>>
  BY DEF ExpireCode
<1>3. TypeOK'
  BY <1>1, <1>2 DEF OInv, TypeOK, fixed, time, history
<1>4. KnownOK'
  BY <1>1, <1>2 DEF OInv, KnownOK, TypeOK
<1> QED
  BY <1>1, <1>2, <1>3, <1>4, FlowKeeps DEF fixed, time

LEMMA ReadCodeKeeps ==
    ASSUME OInv, NEW r \in Requests, NEW k \in Codes, ReadCode(r, k)
    PROVE  OInv'
<1> DEFINE next == [Idle EXCEPT !.step = "exchange", !.at = k]
<1>1. next \in Request /\ next.step = "exchange" /\ next.at = k
  BY DEF Idle, Request
<1>2. RequestOK(next)
  BY <1>1 DEF ReadCode, RequestOK, Mutating
<1>3. /\ req' = [req EXCEPT ![r] = next]
      /\ UNCHANGED <<fixed, flow, grant, time, generated, history>>
  BY DEF ReadCode, Begin
<1> HIDE DEF next
<1> QED
  BY <1>1, <1>2, <1>3, OnlyRequestKeeps

-----------------------------------------------------------------------------
(* Each action keeps the invariant: the code is exchanged.                 *)

LEMMA CreateGrantKeeps ==
    ASSUME OInv, NEW r \in Requests, NEW g \in Grants, CreateGrant(r, g)
    PROVE  OInv'
<1> DEFINE k == req[r].at
           new == generated + 1
           rec == [NoGrant EXCEPT !.of = k, !.current = new]
<1>1. k \in known /\ k \in Codes /\ k # None
  BY OAuthAssumption DEF CreateGrant, OInv, TypeOK, RequestsOK, RequestOK
<1>2. /\ new \in Tokens /\ new \notin Generated /\ new \in Generated'
      /\ generated' \in 0..MaxTokens /\ Generated \subseteq Generated'
      /\ new # NoToken /\ lapsed \in 0..generated'
  BY GeneratedTokens DEF CreateGrant, Generated
<1>3. /\ rec \in Grant /\ rec.of = k /\ rec.current = new /\ rec.access = {}
      /\ rec.replay.of = NoToken
  BY <1>1, <1>2, NoGrantTyped DEF NoGrant, NoReplay, Grant
<1>4. /\ code[k].status = "open" /\ ~Stored(g)
      /\ grant' = [grant EXCEPT ![g] = rec]
      /\ sent' = [sent EXCEPT ![g] = {new}]
      /\ code' = [code EXCEPT ![k].status = "over"]
      /\ req' = [req EXCEPT ![r] = Idle]
      /\ UNCHANGED <<fixed, conn, auth, known, time, exchanged>>
  BY DEF CreateGrant, Redeemable, End
<1> HIDE DEF k, new, rec
<1>5. /\ grant' \in [Grants -> Grant] /\ grant'[g] = rec
      /\ \A h \in Grants \ {g} : grant'[h] = grant[h]
  BY <1>3, <1>4 DEF OInv, TypeOK
<1>6. /\ sent' \in [Grants -> SUBSET Tokens] /\ sent'[g] = {new}
      /\ \A h \in Grants \ {g} : sent'[h] = sent[h]
  BY <1>2, <1>4 DEF OInv, TypeOK
<1>7. /\ code' \in [Codes -> [status : {"absent", "open", "over"},
                              of : Authorizations \cup {None}]]
      /\ code'[k].status = "over"
      /\ \A l \in Codes : /\ code'[l].of = code[l].of
                          /\ code[l].status = "over" => code'[l].status = "over"
                          /\ code[l].status # "absent" => code'[l].status # "absent"
  BY <1>1, <1>4 DEF OInv, TypeOK
<1>8. /\ req' \in [Requests -> Request]
      /\ \A q \in Requests : req'[q] = req[q] \/ req'[q] = Idle
  BY <1>4, IdleTyped DEF OInv, TypeOK
<1>9. TypeOK'
  BY <1>2, <1>4, <1>5, <1>6, <1>7, <1>8 DEF OInv, TypeOK, fixed, time
<1>10. KnownOK'
  BY <1>4, <1>7 DEF OInv, KnownOK, TypeOK
<1>11. Stored(g)' /\ \A h \in Grants \ {g} : Stored(h)' <=> Stored(h)
  BY <1>1, <1>3, <1>5 DEF Stored
<1>12. RequestsOK'
  <2> SUFFICES ASSUME NEW q \in Requests PROVE RequestOK(req[q])'
    BY DEF RequestsOK
  <2>1. CASE req'[q] = Idle
    BY <2>1, IdleTyped DEF RequestOK, Mutating
  <2>2. CASE req'[q] = req[q]
    <3>1. RequestOK(req[q])
      BY DEF OInv, RequestsOK
    <3>2. req[q].step \in Mutating \cup {"admit"} => req[q].at # g
      BY <3>1, <1>4 DEF RequestOK
    <3>3. store' = store /\ known' = known
      BY <1>4 DEF fixed
    <3> QED
      BY <2>2, <3>1, <3>2, <3>3, <1>5, <1>6, <1>11 DEF RequestOK, Mutating
  <2> QED
    BY <1>8, <2>1, <2>2
<1>13. GrantsOK'
  <2> SUFFICES ASSUME NEW h \in Grants
               PROVE  IF Stored(h)' THEN StoredOK(h)' ELSE UnstoredOK(h)'
    BY DEF GrantsOK
  <2>1. lapsed' = lapsed /\ known' = known /\ exchanged' = exchanged
    BY <1>4 DEF time
  <2>2. CASE h = g
    <3>1. Newest(KeepAccess + 2, Unexpired(sent[h]))' \subseteq sent'[h]
      BY DEF Newest, Unexpired
    <3>2. new \in Nat /\ new <= new
      BY <1>2 DEF Tokens
    <3>3. StoredOK(h)' /\ Stored(h)'
      BY <2>1, <2>2, <3>1, <3>2, <1>1, <1>2, <1>3, <1>5, <1>6, <1>7, <1>11
         DEF StoredOK, Stored
    <3> QED
      BY <3>3
  <2>3. CASE h # g /\ Stored(h)
    <3>1. StoredOK(h)
      BY <2>3 DEF OInv, GrantsOK
    <3>2. grant[h].of \in Codes
      BY <3>1 DEF StoredOK, OInv, TypeOK
    <3>3. StoredOK(h)'
      BY <2>1, <2>3, <3>1, <3>2, <1>2, <1>5, <1>6, <1>7 DEF StoredOK, Unexpired
    <3> QED
      BY <2>3, <3>3, <1>11
  <2>4. CASE h # g /\ ~Stored(h)
    BY <2>4, <1>5, <1>6, <1>11 DEF OInv, GrantsOK, UnstoredOK
  <2> QED
    BY <2>2, <2>3, <2>4
<1>14. OneGrantPerCode'
  <2>1. \A h \in Grants : Stored(h) => grant[h].of # k
    BY <1>4 DEF OInv, GrantsOK, StoredOK
  <2> QED
    BY <2>1, <1>3, <1>5, <1>11 DEF OInv, OneGrantPerCode
<1>15. \A h \in Grants : grant[h].current # new
  BY <1>2 DEF OInv, GrantsOK, StoredOK, UnstoredOK
<1>16. OneHolder'
  BY <1>3, <1>5, <1>11, <1>15 DEF OInv, OneHolder
<1>17. ExchangedOnce'
  BY <1>2, <1>3, <1>4, <1>5 DEF OInv, ExchangedOnce
<1> QED
  BY <1>9, <1>10, <1>12, <1>13, <1>14, <1>16, <1>17 DEF OInv

-----------------------------------------------------------------------------
(* Each action keeps the invariant: mutations begin, requests end.         *)

LEMMA CopiedOK ==
    ASSUME OInv, NEW g \in Grants
    PROVE  /\ Copied(g) \in Grant \cup {None}
           /\ store = "mongo" => CopyOf(Copied(g), grant[g])
BY DEF Copied, CopyOf, OInv, TypeOK

LEMMA BeginRefreshKeeps ==
    ASSUME OInv, NEW r \in Requests, NEW g \in Grants, NEW t \in Tokens,
           NEW c \in Callers \cup {None}, BeginRefresh(r, g, t, c)
    PROVE  OInv'
<1> DEFINE next == [[Idle EXCEPT !.step = "refresh", !.token = t, !.caller = c]
                       EXCEPT !.at = g, !.copy = Copied(g)]
<1>1. /\ next \in Request /\ next.step = "refresh" /\ next.at = g /\ next.token = t
      /\ next.copy = Copied(g)
  BY CopiedOK DEF Idle, Request, Mutating
<1>2. RequestOK(next)
  BY <1>1, CopiedOK DEF BeginRefresh, BeginMutation, RequestOK
<1>3. /\ req' = [req EXCEPT ![r] = next]
      /\ UNCHANGED <<fixed, flow, grant, time, generated, history>>
  BY DEF BeginRefresh, BeginMutation, Begin
<1> HIDE DEF next
<1> QED
  BY <1>1, <1>2, <1>3, OnlyRequestKeeps

LEMMA BeginRevokeKeeps ==
    ASSUME OInv, NEW r \in Requests, NEW g \in Grants, NEW t \in Tokens, BeginRevoke(r, g, t)
    PROVE  OInv'
<1> DEFINE next == [[Idle EXCEPT !.step = "revoke", !.token = t]
                       EXCEPT !.at = g, !.copy = Copied(g)]
<1>1. /\ next \in Request /\ next.step = "revoke" /\ next.at = g
      /\ next.copy = Copied(g)
  BY CopiedOK DEF Idle, Request, Mutating
<1>2. RequestOK(next)
  BY <1>1, CopiedOK DEF BeginRevoke, BeginMutation, RequestOK
<1>3. /\ req' = [req EXCEPT ![r] = next]
      /\ UNCHANGED <<fixed, flow, grant, time, generated, history>>
  BY DEF BeginRevoke, BeginMutation, Begin
<1> HIDE DEF next
<1> QED
  BY <1>1, <1>2, <1>3, OnlyRequestKeeps

LEMMA ReadAgainKeeps ==
    ASSUME OInv, NEW r \in Requests, ReadAgain(r)
    PROVE  OInv'
<1> DEFINE g == req[r].at
           next == [req[r] EXCEPT !.copy = grant[g]]
<1>1. req[r] \in Request /\ RequestOK(req[r]) /\ req[r].step \in Mutating
  BY DEF ReadAgain, OInv, TypeOK, RequestsOK
<1>2. g \in Grants /\ grant[g] \in Grant
  BY <1>1 DEF RequestOK, OInv, TypeOK
<1>3. /\ next \in Request /\ next.step = req[r].step /\ next.at = g
      /\ next.token = req[r].token /\ next.copy = grant[g]
  BY <1>1, <1>2 DEF Request
<1>4. RequestOK(next)
  BY <1>1, <1>2, <1>3 DEF RequestOK, CopyOf
<1>5. /\ req' = [req EXCEPT ![r] = next]
      /\ UNCHANGED <<fixed, flow, grant, time, generated, history>>
  BY DEF ReadAgain
<1> HIDE DEF next
<1> QED
  BY <1>3, <1>4, <1>5, OnlyRequestKeeps

LEMMA AuthenticateKeeps ==
    ASSUME OInv, NEW r \in Requests, NEW g \in Grants, NEW t \in Tokens,
           Authenticate(r, g, t)
    PROVE  OInv'
<1> DEFINE next == [Idle EXCEPT !.step = "admit", !.at = g]
<1>1. next \in Request /\ next.step = "admit" /\ next.at = g
  BY DEF Idle, Request
<1>2. Stored(g)
  BY DEF Authenticate, OInv, GrantsOK, UnstoredOK
<1>3. RequestOK(next)
  BY <1>1, <1>2 DEF RequestOK, Mutating
<1>4. /\ req' = [req EXCEPT ![r] = next]
      /\ UNCHANGED <<fixed, flow, grant, time, generated, history>>
  BY DEF Authenticate, Begin
<1> HIDE DEF next
<1> QED
  BY <1>1, <1>3, <1>4, OnlyRequestKeeps

LEMMA AdmitKeeps ==
    ASSUME OInv, NEW r \in Requests, Admit(r)
    PROVE  OInv'
<1> DEFINE g == req[r].at
           next == [Idle EXCEPT !.step = "touch", !.at = g, !.copy = Copied(g)]
<1>1. g \in Grants /\ Stored(g)
  BY DEF Admit, OInv, RequestsOK, RequestOK
<1>2. next \in Request /\ next.step = "touch" /\ next.at = g /\ next.copy = Copied(g)
  BY <1>1, CopiedOK DEF Idle, Request, Mutating
<1>3. RequestOK(next)
  BY <1>1, <1>2, CopiedOK DEF RequestOK
<1>4. /\ req' = [req EXCEPT ![r] = next]
      /\ UNCHANGED <<fixed, flow, grant, time, generated, history>>
  BY DEF Admit
<1> HIDE DEF next
<1> QED
  BY <1>2, <1>3, <1>4, OnlyRequestKeeps

LEMMA RequestEndsKeeps ==
    ASSUME OInv, NEW r \in Requests, RequestEnds(r)
    PROVE  OInv'
<1>1. /\ req' = [req EXCEPT ![r] = Idle]
      /\ UNCHANGED <<fixed, flow, grant, time, generated, history>>
  BY DEF RequestEnds, End
<1> QED
  BY <1>1, IdleTyped, IdleOK, OnlyRequestKeeps

-----------------------------------------------------------------------------
(* Each action keeps the invariant: a mutation is written.                 *)

\* The requests after a write: the writer's is over, and of those about the same
\* grant none holds a copy.
LEMMA WriteFacts ==
    ASSUME OInv, NEW r \in Requests, req[r].step \in Mutating, View(r) # None,
           NEW new \in Grant, new.of = View(r).of, Write(r, new),
           UNCHANGED <<store, known>>,
           \A h \in Grants : sent[h] \subseteq sent'[h]
    PROVE  /\ grant' \in [Grants -> Grant] /\ grant'[req[r].at] = new
           /\ \A h \in Grants \ {req[r].at} : grant'[h] = grant[h]
           /\ \A h \in Grants : grant'[h].of = grant[h].of
           /\ \A h \in Grants : Stored(h)' <=> Stored(h)
           /\ req' \in [Requests -> Request] /\ req'[r] = Idle
           /\ \A q \in Requests \ {r} : req'[q].step = req[q].step
           /\ RequestsOK' /\ OneGrantPerCode'
<1> DEFINE g == req[r].at
<1>1. g \in Grants /\ Stored(g) /\ new.of = grant[g].of
  BY ViewFacts
<1>2. /\ grant' \in [Grants -> Grant] /\ grant'[g] = new
      /\ \A h \in Grants \ {g} : grant'[h] = grant[h]
  BY <1>1 DEF Write, OInv, TypeOK
<1>3. \A h \in Grants : grant'[h].of = grant[h].of
  BY <1>1, <1>2
<1>4. \A h \in Grants : Stored(h)' <=> Stored(h)
  BY <1>3 DEF Stored
<1>5. /\ req'[r] = Idle
      /\ \A q \in Requests \ {r} :
            \/ req[q].at = g /\ req'[q] = [req[q] EXCEPT !.copy = None]
            \/ req[q].at # g /\ req'[q] = req[q]
  BY DEF Write, Overtaken
<1>6. \A q \in Requests \ {r} :
         /\ req'[q] \in Request
         /\ req'[q].step = req[q].step /\ req'[q].at = req[q].at
         /\ req'[q].token = req[q].token
         /\ req'[q].copy = IF req[q].at = g THEN None ELSE req[q].copy
  <2> SUFFICES ASSUME NEW q \in Requests \ {r}
               PROVE  /\ req'[q] \in Request
                      /\ req'[q].step = req[q].step /\ req'[q].at = req[q].at
                      /\ req'[q].token = req[q].token
                      /\ req'[q].copy = IF req[q].at = g THEN None ELSE req[q].copy
    OBVIOUS
  <2>1. req[q] \in Request
    BY DEF OInv, TypeOK
  <2>2. LET over == [req[q] EXCEPT !.copy = None]
        IN  /\ over \in Request
            /\ over.step = req[q].step /\ over.at = req[q].at
            /\ over.token = req[q].token /\ over.copy = None
    BY <2>1 DEF Request
  <2> QED
    BY <2>1, <2>2, <1>5
<1>7. req' \in [Requests -> Request]
  <2>1. \A q \in Requests : req'[q] \in Request
    BY <1>5, <1>6, IdleTyped
  <2> QED
    BY <2>1 DEF Write
<1>8. RequestsOK'
  <2> SUFFICES ASSUME NEW q \in Requests PROVE RequestOK(req[q])'
    BY DEF RequestsOK
  <2>1. CASE q = r
    BY <2>1, <1>5, IdleTyped DEF RequestOK, Mutating
  <2>2. CASE q # r
    <3>1. RequestOK(req[q])
      BY DEF OInv, RequestsOK
    <3>2. /\ req'[q].step = req[q].step /\ req'[q].at = req[q].at
          /\ req'[q].token = req[q].token
          /\ req'[q].copy = IF req[q].at = g THEN None ELSE req[q].copy
      BY <2>2, <1>6
    <3> HIDE DEF g
    <3>3. /\ req'[q].step \in {"resumed", "checked"} => req'[q].at \in Authorizations
          /\ req'[q].step = "exchange" => req'[q].at \in known'
      BY <3>1, <3>2 DEF RequestOK
    <3>4. req'[q].step \in Mutating \cup {"admit"} =>
             /\ req'[q].at \in Grants
             /\ grant'[req'[q].at].of # None
      BY <3>1, <3>2, <1>4 DEF RequestOK, Stored
    <3>5. req'[q].step = "refresh" => req'[q].token \in sent'[req'[q].at]
      <4>1. "refresh" \in Mutating
        BY DEF Mutating
      <4> QED
        BY <3>1, <3>2, <4>1 DEF RequestOK
    <3>6. req'[q].step \in Mutating /\ store' = "mongo" /\ req'[q].copy # None
             => CopyOf(req'[q].copy, grant'[req'[q].at])
      BY <3>1, <3>2, <1>2 DEF RequestOK
    <3> QED
      BY <3>3, <3>4, <3>5, <3>6 DEF RequestOK, Stored
  <2> QED
    BY <2>1, <2>2
<1>9. OneGrantPerCode'
  BY <1>3, <1>4 DEF OInv, OneGrantPerCode
<1> QED
  BY <1>2, <1>3, <1>4, <1>5, <1>6, <1>7, <1>8, <1>9

\* A write that only revokes, or leaves everything as it was.
LEMMA RevisionKeeps ==
    ASSUME OInv, NEW r \in Requests, req[r].step \in Mutating, View(r) # None,
           NEW new \in Grant, Write(r, new),
           new.of = View(r).of, new.current = View(r).current,
           new.previous = View(r).previous, new.access = View(r).access,
           new.replay = View(r).replay,
           UNCHANGED <<fixed, flow, time, generated, history>>
    PROVE  OInv'
<1> DEFINE g == req[r].at
<1>1. /\ g \in Grants /\ Stored(g)
      /\ new.of = grant[g].of /\ new.current = grant[g].current
      /\ new.access = grant[g].access /\ new.replay = grant[g].replay
  BY ViewFacts
<1>2. /\ UNCHANGED <<store, provisioned, conn, auth, code, known, window, lapsed,
                     generated, sent, exchanged>>
      /\ Generated' = Generated
  BY DEF fixed, flow, time, history, Generated
<1>3. /\ grant' \in [Grants -> Grant] /\ grant'[g] = new
      /\ \A h \in Grants \ {g} : grant'[h] = grant[h]
      /\ \A h \in Grants : Stored(h)' <=> Stored(h)
      /\ req' \in [Requests -> Request]
      /\ RequestsOK' /\ OneGrantPerCode'
  BY <1>2, WriteFacts
<1>4. \A h \in Grants :
         /\ grant'[h].of = grant[h].of /\ grant'[h].current = grant[h].current
         /\ grant'[h].access = grant[h].access /\ grant'[h].replay = grant[h].replay
         /\ h # g => grant'[h] = grant[h]
  BY <1>1, <1>3
<1> HIDE DEF g
<1>5. TypeOK' /\ KnownOK'
  BY <1>2, <1>3 DEF OInv, TypeOK, KnownOK
<1>6. GrantsOK'
  <2> SUFFICES ASSUME NEW h \in Grants
               PROVE  IF Stored(h)' THEN StoredOK(h)' ELSE UnstoredOK(h)'
    BY DEF GrantsOK
  <2>1. CASE Stored(h)
    <3>1. StoredOK(h)
      BY <2>1 DEF OInv, GrantsOK
    <3>2. StoredOK(h)'
      BY <3>1, <1>2, <1>4 DEF StoredOK, Unexpired
    <3> QED
      BY <2>1, <3>2, <1>3
  <2>2. CASE ~Stored(h)
    BY <2>2, <1>1, <1>2, <1>3, <1>4 DEF OInv, GrantsOK, UnstoredOK
  <2> QED
    BY <2>1, <2>2
<1>7. OneHolder'
  BY <1>3, <1>4 DEF OInv, OneHolder
<1>8. ExchangedOnce'
  BY <1>2, <1>4 DEF OInv, ExchangedOnce
<1> QED
  BY <1>3, <1>5, <1>6, <1>7, <1>8 DEF OInv

LEMMA RevokedTyped ==
    ASSUME NEW rec \in Grant, NEW reason \in Revocation
    PROVE  LET new == Revoked(rec, reason)
           IN  /\ new \in Grant
               /\ new.of = rec.of /\ new.current = rec.current
               /\ new.previous = rec.previous /\ new.access = rec.access
               /\ new.replay = rec.replay /\ new.revoked = reason
BY DEF Revoked, Grant

\* The sealed answer was sent before.
LEMMA ReplaySent ==
    ASSUME OInv, NEW r \in Requests, AnswerReplay(r)
    PROVE  UNCHANGED history
<1> DEFINE g == req[r].at
           t == req[r].token
           sealed == View(r).replay.sealed
<1>1. req[r].step \in Mutating /\ View(r) # None /\ req[r].step = "refresh"
  BY DEF AnswerReplay, Refreshing, Holding, Mutating
<1>2. /\ g \in Grants /\ StoredOK(g) /\ View(r).replay = grant[g].replay
  BY <1>1, ViewFacts
<1>3. t \in Tokens
  BY <1>1, <1>2 DEF OInv, RequestsOK, RequestOK, TypeOK
<1>4. View(r).replay.of = t /\ t # NoToken
  BY <1>3, GeneratedTokens DEF AnswerReplay, InWindow
<1>5. exchanged[t] = {sealed} /\ sealed \in sent[g]
  BY <1>2, <1>4 DEF StoredOK
<1>6. Send(r, sealed)
  BY DEF AnswerReplay
<1>7. exchanged' = exchanged /\ sent' = sent
  BY <1>2, <1>3, <1>5, <1>6 DEF Send, OInv, TypeOK
<1> QED
  BY <1>7 DEF history

LEMMA RevisionsKeep ==
    ASSUME OInv, NEW r \in Requests,
           AnswerReplay(r) \/ DetectReuse(r) \/ RevokeToken(r) \/ Rewrite(r)
    PROVE  OInv'
<1>1. req[r].step \in Mutating /\ View(r) # None
  BY DEF AnswerReplay, DetectReuse, RevokeToken, Rewrite, Refreshing, Holding, Mutating
<1>2. View(r) \in Grant
  BY <1>1, ViewFacts
<1>3. PICK new \in {View(r), Revoked(View(r), "reuse"), Revoked(View(r), "client")} :
         Write(r, new)
  BY DEF AnswerReplay, DetectReuse, RevokeToken, Rewrite
<1>4. /\ new \in Grant
      /\ new.of = View(r).of /\ new.current = View(r).current
      /\ new.previous = View(r).previous /\ new.access = View(r).access
      /\ new.replay = View(r).replay
  <2>1. {"reuse", "client"} \subseteq Revocation
    BY DEF Revocation
  <2> QED
    BY <2>1, <1>2, RevokedTyped
<1>5. UNCHANGED <<fixed, flow, time, generated, history>>
  BY ReplaySent DEF AnswerReplay, DetectReuse, RevokeToken, Rewrite
<1> QED
  BY <1>1, <1>3, <1>4, <1>5, RevisionKeeps

\* The newest tokens that were sent are still known once another one is.
LEMMA RotatedNewest ==
    ASSUME OInv, generated < MaxTokens, NEW S \in SUBSET Generated, NEW cur \in S,
           NEW A \in SUBSET (S \ {cur}), \A t \in S : t <= cur,
           Newest(KeepAccess + 2, Unexpired(S)) \subseteq {cur} \cup A
    PROVE  Newest(KeepAccess + 2, Unexpired(S \cup {generated + 1}))
               \subseteq {generated + 1} \cup Newest(KeepAccess, Unexpired(A))
                             \cup Unexpired({cur})
<1> DEFINE new == generated + 1
           U == Unexpired(S)
           over(t, X) == {u \in X : u > t}
<1> SUFFICES ASSUME NEW t \in Newest(KeepAccess + 2, Unexpired(S \cup {new})),
                    t # new, t \notin Unexpired({cur})
             PROVE  t \in Newest(KeepAccess, Unexpired(A))
  OBVIOUS
<1>1. /\ KeepAccess \in Nat /\ generated \in Nat /\ lapsed \in Nat
      /\ \A u \in S : u \in Nat /\ u < new
      /\ new > lapsed /\ new \in Nat
  BY GeneratedTokens, OAuthAssumption DEF Generated
<1>2. /\ t \in U /\ t \in S /\ t > lapsed /\ t \in Nat /\ t < new
      /\ Unexpired(S \cup {new}) = U \cup {new}
  BY <1>1 DEF Newest, Unexpired
<1>3. IsFiniteSet(U) /\ \A X \in SUBSET U : IsFiniteSet(X) /\ Cardinality(X) \in Nat
  <2>1. IsFiniteSet(Generated)
    BY <1>1, FS_Interval DEF Generated
  <2>2. U \subseteq Generated
    BY DEF Unexpired
  <2> QED
    BY <2>1, <2>2, FS_Subset, FS_CardinalityType
<1>4. Cardinality(over(t, U)) < KeepAccess + 1
  <2>1. over(t, U \cup {new}) = over(t, U) \cup {new} /\ new \notin over(t, U)
    BY <1>1, <1>2 DEF Unexpired
  <2>2. over(t, U) \in SUBSET U
    OBVIOUS
  <2>3. Cardinality(over(t, U) \cup {new}) = Cardinality(over(t, U)) + 1
    BY <2>1, <2>2, <1>3, FS_AddElement
  <2>4. Cardinality(over(t, U \cup {new})) < KeepAccess + 2
    BY <1>2 DEF Newest
  <2> QED
    BY <2>1, <2>2, <2>3, <2>4, <1>1, <1>3
<1>5. t \in A /\ t # cur /\ t < cur /\ cur \in U /\ t \in Unexpired(A)
  <2>1. Cardinality(over(t, U)) < KeepAccess + 2
    BY <1>1, <1>3, <1>4
  <2>2. t \in {cur} \cup A
    BY <2>1, <1>2 DEF Newest
  <2>3. t # cur
    BY <1>2 DEF Unexpired
  <2> QED
    BY <2>2, <2>3, <1>1, <1>2 DEF Unexpired
<1>6. Cardinality(over(t, Unexpired(A))) < KeepAccess
  <2> DEFINE B == over(t, Unexpired(A))
  <2>1. cur \notin B /\ B \cup {cur} \in SUBSET over(t, U)
    BY <1>1, <1>2, <1>5 DEF Unexpired
  <2>2. over(t, U) \in SUBSET U
    OBVIOUS
  <2>3. IsFiniteSet(over(t, U)) /\ IsFiniteSet(B) /\ B \in SUBSET U
    BY <2>1, <2>2, <1>3
  <2> HIDE DEF B, U, over
  <2>4. Cardinality(B \cup {cur}) <= Cardinality(over(t, U))
    BY <2>1, <2>3, FS_Subset
  <2>5. Cardinality(B \cup {cur}) = Cardinality(B) + 1
    BY <2>1, <2>3, FS_AddElement
  <2>6. Cardinality(B) \in Nat /\ Cardinality(over(t, U)) \in Nat
    BY <2>2, <2>3, <1>3
  <2>7. Cardinality(B) < KeepAccess
    BY <2>4, <2>5, <2>6, <1>1, <1>4
  <2> QED
    BY <2>7 DEF B
<1> QED
  BY <1>5, <1>6 DEF Newest

LEMMA RotatedTyped ==
    ASSUME NEW rec \in Grant, rec.current \in Tokens, NEW c \in Callers \cup {None},
           NEW new \in Tokens
    PROVE  LET rotated == Rotated(rec, c, new)
           IN  /\ rotated \in Grant
               /\ rotated.of = rec.of /\ rotated.current = new
               /\ rotated.access = KeptAccess(rec) /\ rotated.revoked = rec.revoked
               /\ rotated.replay.of # NoToken =>
                      /\ rotated.replay.of = rec.current
                      /\ rotated.replay.sealed = new
<1> DEFINE previous == Newest(KeepPrevious, rec.previous \cup {rec.current})
           replay == IF c = None THEN NoReplay
                     ELSE [of |-> rec.current, by |-> c, sealed |-> new]
<1>1. previous \subseteq Tokens
  BY NewestTyped DEF Grant
<1>2. KeptAccess(rec) \subseteq Tokens
  BY NewestTyped DEF KeptAccess, Unexpired, Grant
<1>3. /\ replay \in Replay
      /\ replay.of # NoToken => replay.of = rec.current /\ replay.sealed = new
  BY DEF Replay, NoReplay
<1>4. Rotated(rec, c, new) = [rec EXCEPT !.current = new, !.previous = previous,
                                         !.access = KeptAccess(rec), !.replay = replay]
  BY DEF Rotated
<1> HIDE DEF previous, replay
<1> QED
  BY <1>1, <1>2, <1>3, <1>4 DEF Grant

LEMMA RotateKeeps ==
    ASSUME OInv, NEW r \in Requests, Rotate(r)
    PROVE  OInv'
<1> DEFINE g == req[r].at
           rec == View(r)
           t == req[r].token
           new == generated + 1
           rotated == Rotated(rec, req[r].caller, new)
<1>1. req[r].step \in Mutating /\ rec # None /\ rec.revoked = "none" /\ t = rec.current
  BY DEF Rotate, Refreshing, Holding, Mutating
<1>2. /\ g \in Grants /\ Stored(g) /\ StoredOK(g) /\ rec \in Grant
      /\ rec.of = grant[g].of /\ rec.current = grant[g].current
      /\ rec.access = grant[g].access
  BY <1>1, ViewFacts
<1>3. /\ new \in Tokens /\ new \notin Generated /\ new \in Generated'
      /\ generated' = new /\ generated' \in 0..MaxTokens /\ Generated \subseteq Generated'
      /\ new # NoToken /\ new \in Nat /\ lapsed \in 0..generated'
      /\ \A u \in Generated : u < new
  BY GeneratedTokens DEF Rotate, Generated
<1>4. t \in Tokens /\ t \in sent[g] /\ t \in Generated /\ t # new
  BY <1>1, <1>2, <1>3, GeneratedTokens DEF StoredOK
<1>5. /\ rotated \in Grant /\ rotated.of = rec.of /\ rotated.current = new
      /\ rotated.access = KeptAccess(rec)
      /\ rotated.replay.of # NoToken => rotated.replay.of = t /\ rotated.replay.sealed = new
  <2>1. req[r].caller \in Callers \cup {None}
    BY DEF OInv, TypeOK, Request
  <2> QED
    BY <2>1, <1>1, <1>2, <1>3, <1>4, RotatedTyped
<1>6. /\ Write(r, rotated) /\ Send(r, new)
      /\ window' = [window EXCEPT ![g] = IF req[r].caller = None THEN "over" ELSE "open"]
      /\ UNCHANGED <<store, provisioned, conn, auth, code, known, lapsed>>
  BY DEF Rotate, fixed, flow
<1> HIDE DEF g, rec, t, new, rotated
<1>7. /\ sent' \in [Grants -> SUBSET Tokens] /\ sent'[g] = sent[g] \cup {new}
      /\ \A h \in Grants \ {g} : sent'[h] = sent[h]
  BY <1>2, <1>3, <1>6 DEF Send, OInv, TypeOK, g
<1>8. exchanged[t] = {}
  BY <1>1, <1>2, <1>4 DEF OInv, ExchangedOnce
<1>9. /\ exchanged' \in [Tokens -> SUBSET Tokens] /\ exchanged'[t] = {new}
      /\ \A v \in Tokens \ {t} : exchanged'[v] = exchanged[v]
  BY <1>3, <1>4, <1>6, <1>8 DEF Send, OInv, TypeOK, t
<1>10. /\ grant' \in [Grants -> Grant] /\ grant'[g] = rotated
       /\ \A h \in Grants \ {g} : grant'[h] = grant[h]
       /\ \A h \in Grants : Stored(h)' <=> Stored(h)
       /\ req' \in [Requests -> Request]
       /\ RequestsOK' /\ OneGrantPerCode'
  BY <1>1, <1>5, <1>6, <1>7, WriteFacts DEF rec, g
<1>11. TypeOK' /\ KnownOK'
  <2>1. window' \in [Grants -> {"open", "rekeyed", "over", "expired"}]
    BY <1>6 DEF OInv, TypeOK
  <2> QED
    BY ZenonT(60), <2>1, <1>3, <1>6, <1>7, <1>9, <1>10 DEF OInv, TypeOK, KnownOK
<1>12. GrantsOK'
  <2> SUFFICES ASSUME NEW h \in Grants
               PROVE  IF Stored(h)' THEN StoredOK(h)' ELSE UnstoredOK(h)'
    BY DEF GrantsOK
  <2>1. CASE h = g
    <3>1. KeptAccess(rec) \subseteq sent[g]
      BY <1>1, <1>2, <1>4, NewestTyped DEF KeptAccess, Unexpired, StoredOK
    <3>2. Newest(KeepAccess + 2, Unexpired(sent[g] \cup {new}))
             \subseteq {new} \cup KeptAccess(rec)
      <4>1. generated < MaxTokens
        BY DEF Rotate
      <4>2. Newest(KeepAccess + 2, Unexpired(sent[g] \cup {new}))
               \subseteq {new} \cup Newest(KeepAccess, Unexpired(grant[g].access))
                             \cup Unexpired({grant[g].current})
        BY <4>1, <1>2, RotatedNewest DEF StoredOK, new
      <4> QED
        BY <4>2, <1>2 DEF KeptAccess
    <3>3. Newest(KeepAccess + 2, Unexpired(sent[h]))' \subseteq {new} \cup KeptAccess(rec)
      BY <3>2, <2>1, <1>6, <1>7 DEF Newest, Unexpired
    <3>4. new \notin sent[g] /\ \A u \in sent[g] \cup {new} : u <= new
      BY <1>2, <1>3 DEF StoredOK, Generated
    <3>5. /\ grant'[h].of = grant[h].of /\ grant'[h].current = new
          /\ grant'[h].access = KeptAccess(rec)
          /\ grant'[h].replay.of # NoToken =>
                 /\ grant'[h].replay.of = t
                 /\ grant'[h].replay.sealed = new
          /\ sent'[h] = sent[h] \cup {new}
      BY <2>1, <1>2, <1>5, <1>7, <1>10
    <3>6. grant'[h].of \in known' /\ code'[grant'[h].of].status = "over"
      BY <2>1, <3>5, <1>2, <1>6 DEF StoredOK
    <3>7. /\ sent'[h] \subseteq Generated' /\ grant'[h].current \in sent'[h]
          /\ \A u \in sent'[h] : u <= grant'[h].current
          /\ grant'[h].access \subseteq sent'[h] \ {grant'[h].current}
      BY ZenonT(60), <2>1, <3>1, <3>4, <3>5, <1>2, <1>3 DEF StoredOK
    <3>8. Newest(KeepAccess + 2, Unexpired(sent[h]))'
             \subseteq {grant'[h].current} \cup grant'[h].access
      BY <3>3, <3>5
    <3>9. grant'[h].replay.of # NoToken =>
             /\ exchanged'[grant'[h].replay.of] = {grant'[h].replay.sealed}
             /\ grant'[h].replay.sealed = grant'[h].current
      BY <3>5, <1>9
    <3>10. StoredOK(h)'
      BY <3>6, <3>7, <3>8, <3>9 DEF StoredOK
    <3> QED
      BY <3>10, <2>1, <1>2, <1>10
  <2>2. CASE h # g /\ Stored(h)
    <3>1. StoredOK(h)
      BY <2>2 DEF OInv, GrantsOK
    <3>2. /\ grant[h].replay.of \in Tokens \cup {NoToken}
          /\ grant[h].replay.of # NoToken => grant[h].replay.of # t
      <4>1. grant[h].replay.of # NoToken => exchanged[grant[h].replay.of] # {}
        BY <3>1 DEF StoredOK
      <4> QED
        BY <4>1, <1>8 DEF OInv, TypeOK, Grant, Replay
    <3>3. StoredOK(h)'
      BY <2>2, <3>1, <3>2, <1>3, <1>6, <1>7, <1>9, <1>10 DEF StoredOK, Unexpired
    <3> QED
      BY <2>2, <3>3, <1>10
  <2>3. CASE h # g /\ ~Stored(h)
    BY <2>3, <1>7, <1>10 DEF OInv, GrantsOK, UnstoredOK
  <2> QED
    BY <2>1, <2>2, <2>3
<1>13. \A h \in Grants : grant[h].current # new
  BY <1>3 DEF OInv, GrantsOK, StoredOK, UnstoredOK
<1>14. OneHolder'
  BY <1>5, <1>10, <1>13 DEF OInv, OneHolder
<1>15. ExchangedOnce'
  <2> SUFFICES ASSUME NEW v \in Tokens
               PROVE  /\ exchanged'[v] = {} \/ \E u \in Tokens : exchanged'[v] = {u}
                      /\ exchanged'[v] # {} =>
                            v \in Generated' /\ \A h \in Grants : grant'[h].current # v
    BY DEF ExchangedOnce
  <2>1. CASE v = t
    <3>1. \A h \in Grants \ {g} : grant[h].current # t
      BY <1>1, <1>2 DEF OInv, OneHolder
    <3> QED
      BY <2>1, <3>1, <1>3, <1>4, <1>5, <1>9, <1>10
  <2>2. CASE v # t
    <3>1. /\ exchanged[v] = {} \/ \E u \in Tokens : exchanged[v] = {u}
          /\ exchanged[v] # {} => v \in Generated /\ \A h \in Grants : grant[h].current # v
          /\ exchanged'[v] = exchanged[v]
      BY <2>2, <1>9 DEF OInv, ExchangedOnce
    <3>2. exchanged[v] # {} => v \in Generated' /\ v # new
      BY <3>1, <1>3
    <3>3. \A h \in Grants : grant'[h].current \in {new, grant[h].current}
      BY <1>5, <1>10
    <3> QED
      BY <3>1, <3>2, <3>3
  <2> QED
    BY <2>1, <2>2
<1> QED
  BY <1>10, <1>11, <1>12, <1>14, <1>15 DEF OInv

-----------------------------------------------------------------------------
(* Each action keeps the invariant: the user revokes, and time passes.     *)

LEMMA RevokeClientKeeps ==
    ASSUME OInv, NEW S \in SUBSET Grants, RevokeClient(S)
    PROVE  OInv'
<1>1. /\ \A g \in S : Stored(g) /\ grant[g].revoked = "none"
      /\ grant' = [g \in Grants |-> IF g \in S THEN Revoked(grant[g], "user") ELSE grant[g]]
      /\ UNCHANGED <<store, provisioned, conn, auth, code, known, window, lapsed,
                     generated, req, sent, exchanged>>
      /\ Generated' = Generated
  BY DEF RevokeClient, fixed, flow, time, history, Generated
<1>2. \A g \in Grants :
         /\ grant'[g] \in Grant
         /\ grant'[g].of = grant[g].of /\ grant'[g].current = grant[g].current
         /\ grant'[g].access = grant[g].access /\ grant'[g].replay = grant[g].replay
         /\ g \notin S => grant'[g] = grant[g]
         /\ g \in S => grant'[g].revoked = "user" /\ CopyOf(grant[g], grant'[g])
  <2> SUFFICES ASSUME NEW g \in Grants
               PROVE  /\ grant'[g] \in Grant
                      /\ grant'[g].of = grant[g].of /\ grant'[g].current = grant[g].current
                      /\ grant'[g].access = grant[g].access
                      /\ grant'[g].replay = grant[g].replay
                      /\ g \notin S => grant'[g] = grant[g]
                      /\ g \in S => grant'[g].revoked = "user" /\ CopyOf(grant[g], grant'[g])
    OBVIOUS
  <2>1. grant[g] \in Grant
    BY DEF OInv, TypeOK
  <2>2. "user" \in Revocation
    BY DEF Revocation
  <2>3. CASE g \notin S
    BY <2>1, <2>3, <1>1
  <2>4. CASE g \in S
    <3>1. grant'[g] = Revoked(grant[g], "user") /\ grant[g].revoked = "none"
      BY <2>4, <1>1
    <3>2. grant[g] = [Revoked(grant[g], "user") EXCEPT !.revoked = "none"]
      BY <2>1, <3>1 DEF Revoked, Grant
    <3> QED
      BY <2>1, <2>2, <2>4, <3>1, <3>2, RevokedTyped DEF CopyOf
  <2> QED
    BY <2>3, <2>4
<1>3. grant' \in [Grants -> Grant] /\ \A g \in Grants : Stored(g)' <=> Stored(g)
  BY <1>1, <1>2 DEF Stored
<1>4. TypeOK' /\ KnownOK'
  BY <1>1, <1>3 DEF OInv, TypeOK, KnownOK
<1>5. RequestsOK'
  <2> SUFFICES ASSUME NEW q \in Requests PROVE RequestOK(req[q])'
    BY DEF RequestsOK
  <2>1. RequestOK(req[q])
    BY DEF OInv, RequestsOK
  <2>2. CASE req[q].step \in Mutating \cup {"admit"}
    <3> DEFINE h == req[q].at
    <3>1. h \in Grants /\ Stored(h) /\ grant'[h].of # None
      BY <2>1, <2>2, <1>2 DEF RequestOK, Stored
    <3>2. CASE h \in S
      <4>1. grant[h].revoked = "none" /\ CopyOf(grant[h], grant'[h])
        BY <3>1, <3>2, <1>1, <1>2
      <4>2. \A copy : CopyOf(copy, grant[h]) => copy = grant[h]
        BY <4>1 DEF CopyOf
      <4> QED
        BY <2>1, <3>1, <4>1, <4>2, <1>1 DEF RequestOK, Stored
    <3>3. CASE h \notin S
      BY <2>1, <3>1, <3>3, <1>1, <1>2 DEF RequestOK, Stored
    <3> QED
      BY <3>2, <3>3
  <2>3. CASE req[q].step \notin Mutating \cup {"admit"}
    BY <2>1, <2>3, <1>1 DEF RequestOK, Mutating
  <2> QED
    BY <2>2, <2>3
<1>6. GrantsOK'
  <2> SUFFICES ASSUME NEW h \in Grants
               PROVE  IF Stored(h)' THEN StoredOK(h)' ELSE UnstoredOK(h)'
    BY DEF GrantsOK
  <2>1. CASE Stored(h)
    <3>1. StoredOK(h)
      BY <2>1 DEF OInv, GrantsOK
    <3>2. StoredOK(h)'
      BY <3>1, <1>1, <1>2 DEF StoredOK, Unexpired
    <3> QED
      BY <2>1, <3>2, <1>3
  <2>2. CASE ~Stored(h)
    <3>1. UnstoredOK(h) /\ h \notin S
      BY <2>2, <1>1 DEF OInv, GrantsOK
    <3> QED
      BY <2>2, <3>1, <1>1, <1>2, <1>3 DEF UnstoredOK
  <2> QED
    BY <2>1, <2>2
<1>7. OneGrantPerCode' /\ OneHolder'
  BY <1>2, <1>3 DEF OInv, OneGrantPerCode, OneHolder
<1>8. ExchangedOnce'
  BY <1>1, <1>2 DEF OInv, ExchangedOnce
<1> QED
  BY <1>4, <1>5, <1>6, <1>7, <1>8 DEF OInv

\* Retry windows and tokens expire.
LEMMA TimeKeeps ==
    ASSUME OInv, \/ \E g \in Grants : WindowMoves(g) \/ ExpireRefresh(g)
                 \/ LapseAccess
    PROVE  OInv'
<1>1. /\ UNCHANGED <<store, provisioned, conn, auth, code, known, grant, generated, req,
                     sent, exchanged>>
      /\ lapsed' \in 0..generated /\ lapsed <= lapsed' /\ lapsed' <= lapsed + 1
      /\ window' \in [Grants -> {"open", "rekeyed", "over", "expired"}]
  BY GeneratedTokens DEF WindowMoves, ExpireRefresh, LapseAccess, fixed, flow, history,
                         OInv, TypeOK
<1>2. TypeOK' /\ KnownOK'
  BY <1>1 DEF OInv, TypeOK, KnownOK
<1>3. RequestsOK'
  BY <1>1 DEF OInv, RequestsOK, RequestOK, Stored
<1>4. GrantsOK'
  <2> SUFFICES ASSUME NEW h \in Grants
               PROVE  IF Stored(h)' THEN StoredOK(h)' ELSE UnstoredOK(h)'
    BY DEF GrantsOK
  <2>1. CASE Stored(h)
    <3>1. StoredOK(h)
      BY <2>1 DEF OInv, GrantsOK
    <3> DEFINE U == Unexpired(sent[h])
               V == {t \in sent[h] : t > lapsed'}
    <3>2. \A t \in V : t \in U /\ {u \in V : u > t} = {u \in U : u > t}
      BY <3>1, <1>1, GeneratedTokens DEF StoredOK, Generated, Unexpired
    <3>3. Newest(KeepAccess + 2, V) \subseteq Newest(KeepAccess + 2, U)
      BY <3>2 DEF Newest
    <3>4. Newest(KeepAccess + 2, Unexpired(sent[h]))' = Newest(KeepAccess + 2, V)
      BY <1>1 DEF Newest, Unexpired
    <3> HIDE DEF U, V
    <3>5. Newest(KeepAccess + 2, Unexpired(sent[h]))'
             \subseteq {grant[h].current} \cup grant[h].access
      BY <3>1, <3>3, <3>4 DEF StoredOK, U
    <3>6. StoredOK(h)'
      BY <3>1, <3>5, <1>1 DEF StoredOK, Generated
    <3> QED
      BY <2>1, <3>6, <1>1 DEF Stored
  <2>2. CASE ~Stored(h)
    BY <2>2, <1>1 DEF OInv, GrantsOK, UnstoredOK, Stored
  <2> QED
    BY <2>1, <2>2
<1>5. OneGrantPerCode' /\ OneHolder'
  BY <1>1 DEF OInv, OneGrantPerCode, OneHolder, Stored
<1>6. ExchangedOnce'
  BY <1>1 DEF OInv, ExchangedOnce, Generated
<1> QED
  BY <1>2, <1>3, <1>4, <1>5, <1>6 DEF OInv

-----------------------------------------------------------------------------
(* The invariant.                                                          *)

LEMMA InitOInv == Init => OInv
<1> SUFFICES ASSUME Init PROVE OInv
  OBVIOUS
<1>1. \A g \in Grants : grant[g] = NoGrant /\ ~Stored(g) /\ sent[g] = {}
  BY NoGrantTyped DEF Init, Stored
<1>2. NoGrant.current = NoToken /\ NoGrant.revoked = "none" /\ NoGrant.replay.of = NoToken
  BY DEF NoGrant, NoReplay
<1>3. TypeOK
  BY NoGrantTyped, IdleTyped, OAuthAssumption DEF Init, TypeOK
<1>4. KnownOK /\ RequestsOK
  BY IdleTyped DEF Init, KnownOK, RequestsOK, RequestOK, Mutating
<1>5. GrantsOK
  BY <1>1, <1>2 DEF GrantsOK, UnstoredOK
<1>6. OneGrantPerCode /\ OneHolder
  BY <1>1 DEF OneGrantPerCode, OneHolder
<1>7. ExchangedOnce
  BY DEF Init, ExchangedOnce
<1> QED
  BY <1>3, <1>4, <1>5, <1>6, <1>7 DEF OInv

LEMMA NextOInv == OInv /\ [Next]_vars => OInv'
<1> SUFFICES ASSUME OInv, [Next]_vars PROVE OInv'
  OBVIOUS
<1>1. CASE UNCHANGED vars
  <2>1. UNCHANGED <<fixed, flow, grant, time, generated, req, history>>
    BY <1>1 DEF vars, fixed, flow, time, history
  <2>2. TypeOK' /\ KnownOK'
    BY <1>1 DEF vars, OInv, TypeOK, KnownOK
  <2> QED
    BY <2>1, <2>2, FlowKeeps DEF fixed, flow, time
<1>2. CASE Next
  <2>1. ASSUME NEW c \in Connections,
               \/ CreateConnection(c) \/ EnsureConnection(c)
               \/ RevokeConnection(c) \/ DeleteConnection(c)
        PROVE  OInv'
    BY <2>1, ConnectionKeeps
  <2>2. ASSUME NEW r \in Requests,
               \/ CountConnections(r) \/ \E c \in Connections : InsertConnection(r, c)
        PROVE  OInv'
    BY <2>2, CountConnectionsKeeps, InsertConnectionKeeps
  <2>3. ASSUME NEW a \in Authorizations,
               \/ \E c \in Connections : BeginAuthorization(a, c)
               \/ ExpireAuthorization(a)
               \/ \E r \in Requests : ResumeAuthorization(r, a)
        PROVE  OInv'
    BY <2>3, AuthorizationKeeps, ResumeKeeps
  <2>4. ASSUME NEW r \in Requests, DenyAuthorization(r) \/ CheckConnection(r)
        PROVE  OInv'
    BY <2>4, DenyKeeps, CheckConnectionKeeps
  <2>5. ASSUME NEW k \in Codes,
               \/ \E r \in Requests : CreateCode(r, k) \/ CreateCodeCrash(r, k)
               \/ ExpireCode(k)
               \/ \E r \in Requests : ReadCode(r, k)
        PROVE  OInv'
    BY <2>5, CreateCodeKeeps, CreateCodeCrashKeeps, ExpireCodeKeeps, ReadCodeKeeps
  <2>6. ASSUME NEW r \in Requests, NEW g \in Grants,
               \/ CreateGrant(r, g)
               \/ \E t \in Tokens : BeginRevoke(r, g, t) \/ Authenticate(r, g, t)
               \/ \E t \in Tokens, c \in Callers \cup {None} : BeginRefresh(r, g, t, c)
        PROVE  OInv'
    BY <2>6, CreateGrantKeeps, BeginRevokeKeeps, AuthenticateKeeps, BeginRefreshKeeps
  <2>7. ASSUME NEW r \in Requests,
               \/ ReadAgain(r) \/ Rotate(r)
               \/ AnswerReplay(r) \/ DetectReuse(r) \/ RevokeToken(r) \/ Rewrite(r)
               \/ Admit(r) \/ RequestEnds(r)
        PROVE  OInv'
    BY <2>7, ReadAgainKeeps, RotateKeeps, RevisionsKeep, AdmitKeeps, RequestEndsKeeps
  <2>8. ASSUME NEW S \in SUBSET Grants, RevokeClient(S) PROVE OInv'
    BY <2>8, RevokeClientKeeps
  <2>9. ASSUME \/ \E g \in Grants : WindowMoves(g) \/ ExpireRefresh(g)
               \/ LapseAccess
        PROVE  OInv'
    BY <2>9, TimeKeeps
  <2> QED
    BY <1>2, <2>1, <2>2, <2>3, <2>4, <2>5, <2>6, <2>7, <2>8, <2>9 DEF Next
<1> QED
  BY <1>1, <1>2

-----------------------------------------------------------------------------
(* What follows from it in every state.                                    *)

\* Every reachable state of OAuthGrants is well typed.
THEOREM TypeCorrect == Spec => []TypeOK
<1>1. OInv => TypeOK
  BY DEF OInv
<1> QED
  BY <1>1, InitOInv, NextOInv, PTL DEF Spec

\* However often the user answers, the client exchanges and the process stops, an
\* authorization yields one grant at most.
THEOREM AuthorizationYieldsOneGrant == Spec => []OneGrantPerAuthorization
<1>1. OInv => OneGrantPerAuthorization
  <2> SUFFICES ASSUME OInv, NEW g \in Grants, NEW h \in Grants, Stored(g), Stored(h),
                      code[grant[g].of].of = code[grant[h].of].of
               PROVE  g = h
    BY DEF OneGrantPerAuthorization
  <2>1. grant[g].of \in known /\ grant[h].of \in known
    BY DEF OInv, GrantsOK, StoredOK
  <2>2. grant[g].of = grant[h].of
    BY <2>1 DEF OInv, KnownOK
  <2> QED
    BY <2>2 DEF OInv, OneGrantPerCode
<1> QED
  BY <1>1, InitOInv, NextOInv, PTL DEF Spec

\* All refreshes of one token that are answered are answered with one successor, on
\* either store and however requests overlap.
THEOREM RefreshesHaveOneSuccessor == Spec => []OneSuccessor
<1>1. OInv => OneSuccessor
  <2> SUFFICES ASSUME OInv, NEW t \in Tokens PROVE Cardinality(exchanged[t]) <= 1
    BY DEF OneSuccessor
  <2>1. exchanged[t] = {} \/ \E new \in Tokens : exchanged[t] = {new}
    BY DEF OInv, ExchangedOnce
  <2>2. Cardinality({}) = 0
    BY FS_EmptySet
  <2>3. \A new : Cardinality({new}) = 1
    BY FS_Singleton
  <2>4. Cardinality(exchanged[t]) = 0 \/ Cardinality(exchanged[t]) = 1
    BY <2>1, <2>2, <2>3, Zenon
  <2> QED
    BY <2>4
<1> QED
  BY <1>1, InitOInv, NextOInv, PTL DEF Spec

\* A client's newest tokens are those its grant knows, until they expire or the grant is
\* revoked, whatever refreshes, retries and other mutations overlap.
THEOREM NewestTokensHonoured == Spec => []SentTokensHonoured
<1>1. OInv => SentTokensHonoured
  BY DEF OInv, GrantsOK, StoredOK, SentTokensHonoured
<1> QED
  BY <1>1, InitOInv, NextOInv, PTL DEF Spec

-----------------------------------------------------------------------------
(* What no step does.                                                      *)

\* What a mutation writes into the grant it is about, and nowhere else.
LEMMA WrittenOnly ==
    ASSUME OInv, NEW r \in Requests, req[r].step \in Mutating, View(r) # None,
           NEW new, Write(r, new)
    PROVE  /\ grant'[req[r].at] = new
           /\ \A h \in Grants \ {req[r].at} : grant'[h] = grant[h]
           /\ \A q \in Requests \ {r} : req'[q].step = req[q].step
<1>1. req[r].at \in Grants
  BY ViewFacts
<1>2. grant'[req[r].at] = new /\ \A h \in Grants \ {req[r].at} : grant'[h] = grant[h]
  BY <1>1 DEF Write, OInv, TypeOK
<1>3. \A q \in Requests \ {r} :
         req'[q] = req[q] \/ req'[q] = [req[q] EXCEPT !.copy = None]
  BY DEF Write
<1>4. \A q \in Requests : [req[q] EXCEPT !.copy = None].step = req[q].step
  BY DEF OInv, TypeOK, Request
<1> QED
  BY <1>2, <1>3, <1>4

\* How a step may change what the reader of a grant sees of its revocation.
RevocationMoves(g) ==
    \/ grant'[g].revoked = grant[g].revoked
    \/ grant'[g].revoked \in {"reuse", "client", "user"}
    \/ store = "mongo" /\ grant[g].revoked = "user"

LEMMA RevocationStep ==
    ASSUME OInv, Next, NEW g \in Grants
    PROVE  RevocationMoves(g)
<1>1. ASSUME NEW r \in Requests, req[r].step \in Mutating, View(r) # None,
             NEW new, Write(r, new),
             \/ new.revoked = View(r).revoked
             \/ new.revoked \in {"reuse", "client"}
      PROVE  RevocationMoves(g)
  <2>1. /\ grant'[req[r].at] = new
        /\ \A h \in Grants \ {req[r].at} : grant'[h] = grant[h]
    BY <1>1, WrittenOnly
  <2>2. \/ View(r).revoked = grant[req[r].at].revoked
        \/ store = "mongo" /\ grant[req[r].at].revoked = "user"
    BY <1>1, ViewFacts
  <2> QED
    BY <1>1, <2>1, <2>2 DEF RevocationMoves
<1>2. ASSUME NEW r \in Requests,
             \/ Rotate(r) \/ AnswerReplay(r) \/ DetectReuse(r)
             \/ RevokeToken(r) \/ Rewrite(r)
      PROVE  RevocationMoves(g)
  <2>1. req[r].step \in Mutating /\ View(r) # None
    BY <1>2 DEF Rotate, AnswerReplay, DetectReuse, RevokeToken, Rewrite, Refreshing,
                Holding, Mutating
  <2>2. View(r) \in Grant
    BY <2>1, ViewFacts
  <2>3. CASE Rotate(r)
    <3>1. Rotated(View(r), req[r].caller, generated + 1).revoked = View(r).revoked
      BY <2>2 DEF Rotated, Grant
    <3>2. Write(r, Rotated(View(r), req[r].caller, generated + 1))
      BY <2>3 DEF Rotate
    <3> QED
      BY <2>1, <3>1, <3>2, <1>1
  <2>4. CASE AnswerReplay(r) \/ Rewrite(r)
    BY <2>1, <2>4, <1>1 DEF AnswerReplay, Rewrite
  <2>5. CASE DetectReuse(r) \/ RevokeToken(r)
    <3>1. {"reuse", "client"} \subseteq Revocation
      BY DEF Revocation
    <3>2. /\ Revoked(View(r), "reuse").revoked = "reuse"
          /\ Revoked(View(r), "client").revoked = "client"
      BY <2>2, <3>1, RevokedTyped
    <3> QED
      BY <2>1, <2>5, <3>2, <1>1 DEF DetectReuse, RevokeToken
  <2> QED
    BY <1>2, <2>3, <2>4, <2>5
<1>3. ASSUME NEW S \in SUBSET Grants, RevokeClient(S) PROVE RevocationMoves(g)
  <2>1. grant'[g] = IF g \in S THEN Revoked(grant[g], "user") ELSE grant[g]
    BY <1>3 DEF RevokeClient
  <2>2. "user" \in Revocation /\ grant[g] \in Grant
    BY DEF Revocation, OInv, TypeOK
  <2>3. Revoked(grant[g], "user").revoked = "user"
    BY <2>2, RevokedTyped
  <2> QED
    BY <2>1, <2>3 DEF RevocationMoves
<1>4. ASSUME NEW r \in Requests, NEW h \in Grants, CreateGrant(r, h)
      PROVE  RevocationMoves(g)
  <2>1. grant' = [grant EXCEPT ![h] = [NoGrant EXCEPT !.of = req[r].at,
                                                      !.current = generated + 1]]
    BY <1>4 DEF CreateGrant
  <2>2. [NoGrant EXCEPT !.of = req[r].at, !.current = generated + 1].revoked = "none"
    BY DEF NoGrant
  <2>3. ~Stored(h) => grant[h].revoked = "none"
    BY DEF OInv, GrantsOK, UnstoredOK
  <2> QED
    BY <1>4, <2>1, <2>2, <2>3 DEF CreateGrant, RevocationMoves, OInv, TypeOK
<1>5. ASSUME grant' = grant PROVE RevocationMoves(g)
  BY <1>5 DEF RevocationMoves
<1> QED
  BY <1>2, <1>3, <1>4, <1>5
     DEF Next, CreateConnection, CountConnections, InsertConnection, EnsureConnection,
         RevokeConnection, DeleteConnection, BeginAuthorization, ExpireAuthorization,
         ResumeAuthorization, DenyAuthorization, CheckConnection, CreateCode,
         CreateCodeCrash, ExpireCode, ReadCode, ReadAgain, BeginRefresh, BeginRevoke,
         Authenticate, Admit, RequestEnds, WindowMoves, ExpireRefresh, LapseAccess

\* A grant that was revoked for reuse or by the client stays revoked, and so does every
\* revoked grant on the JSON store.
THEOREM RevocationStaysFinal == Spec => RevocationIsFinal
<1>1. OInv /\ [Next]_vars =>
         [\A g \in Grants :
            grant[g].revoked \in {"reuse", "client"} \/ store = "json" =>
               (grant[g].revoked # "none" => grant'[g].revoked # "none")]_vars
  <2> SUFFICES ASSUME OInv, Next, NEW g \in Grants,
                      grant[g].revoked \in {"reuse", "client"} \/ store = "json",
                      grant[g].revoked # "none"
               PROVE  grant'[g].revoked # "none"
    OBVIOUS
  <2>1. RevocationMoves(g)
    BY RevocationStep
  <2> QED
    BY <2>1 DEF RevocationMoves
<1> QED
  BY <1>1, InitOInv, NextOInv, PTL DEF Spec, RevocationIsFinal

\* A grant is revoked for reuse only by the refresh that found it out.
LEMMA ReuseIsDetected ==
    ASSUME OInv, Next, NEW g \in Grants,
           grant[g].revoked = "none", grant'[g].revoked = "reuse"
    PROVE  \E q \in Requests : DetectReuse(q)
<1>1. ASSUME NEW r \in Requests, req[r].step \in Mutating, View(r) # None,
             NEW new, Write(r, new),
             new.revoked = View(r).revoked \/ new.revoked = "client"
      PROVE  FALSE
  <2>1. /\ grant'[req[r].at] = new
        /\ \A h \in Grants \ {req[r].at} : grant'[h] = grant[h]
    BY <1>1, WrittenOnly
  <2>2. \/ View(r).revoked = grant[req[r].at].revoked
        \/ View(r).revoked = "none"
    BY <1>1, ViewFacts
  <2> QED
    BY <1>1, <2>1, <2>2
<1>2. ASSUME NEW r \in Requests,
             Rotate(r) \/ AnswerReplay(r) \/ RevokeToken(r) \/ Rewrite(r)
      PROVE  FALSE
  <2>1. req[r].step \in Mutating /\ View(r) # None
    BY <1>2 DEF Rotate, AnswerReplay, RevokeToken, Rewrite, Refreshing, Holding, Mutating
  <2>2. View(r) \in Grant
    BY <2>1, ViewFacts
  <2>3. CASE Rotate(r)
    <3>1. Rotated(View(r), req[r].caller, generated + 1).revoked = View(r).revoked
      BY <2>2 DEF Rotated, Grant
    <3>2. Write(r, Rotated(View(r), req[r].caller, generated + 1))
      BY <2>3 DEF Rotate
    <3> QED
      BY <2>1, <3>1, <3>2, <1>1
  <2>4. CASE AnswerReplay(r) \/ Rewrite(r)
    BY <2>1, <2>4, <1>1 DEF AnswerReplay, Rewrite
  <2>5. CASE RevokeToken(r)
    <3>1. "client" \in Revocation
      BY DEF Revocation
    <3>2. Revoked(View(r), "client").revoked = "client"
      BY <2>2, <3>1, RevokedTyped
    <3> QED
      BY <2>1, <2>5, <3>2, <1>1 DEF RevokeToken
  <2> QED
    BY <1>2, <2>3, <2>4, <2>5
<1>3. ASSUME NEW S \in SUBSET Grants, RevokeClient(S) PROVE FALSE
  <2>1. grant'[g] = IF g \in S THEN Revoked(grant[g], "user") ELSE grant[g]
    BY <1>3 DEF RevokeClient
  <2>2. "user" \in Revocation /\ grant[g] \in Grant
    BY DEF Revocation, OInv, TypeOK
  <2>3. Revoked(grant[g], "user").revoked = "user"
    BY <2>2, RevokedTyped
  <2> QED
    BY <2>1, <2>3
<1>4. ASSUME NEW r \in Requests, NEW h \in Grants, CreateGrant(r, h) PROVE FALSE
  <2>1. grant' = [grant EXCEPT ![h] = [NoGrant EXCEPT !.of = req[r].at,
                                                      !.current = generated + 1]]
    BY <1>4 DEF CreateGrant
  <2>2. [NoGrant EXCEPT !.of = req[r].at, !.current = generated + 1].revoked = "none"
    BY DEF NoGrant
  <2> QED
    BY <2>1, <2>2 DEF OInv, TypeOK
<1>5. grant' # grant
  OBVIOUS
<1> QED
  BY <1>2, <1>3, <1>4, <1>5
     DEF Next, CreateConnection, CountConnections, InsertConnection, EnsureConnection,
         RevokeConnection, DeleteConnection, BeginAuthorization, ExpireAuthorization,
         ResumeAuthorization, DenyAuthorization, CheckConnection, CreateCode,
         CreateCodeCrash, ExpireCode, ReadCode, ReadAgain, BeginRefresh, BeginRevoke,
         Authenticate, Admit, RequestEnds, WindowMoves, ExpireRefresh, LapseAccess

\* A duplicate of the last refresh never ends a grant while its retry window is open.
THEOREM DuplicatesKeepGrant == Spec => DuplicateKeepsGrant
<1>1. OInv /\ [Next]_vars =>
         [\A r \in Requests, g \in Grants :
            /\ req[r].step = "refresh" /\ req[r].at = g
            /\ req'[r] = Idle
            /\ grant[g].revoked = "none" /\ grant'[g].revoked = "reuse"
            /\ grant[g].replay.of = req[r].token
            => window[g] # "open"]_vars
  <2> SUFFICES ASSUME OInv, Next, NEW r \in Requests, NEW g \in Grants,
                      req[r].step = "refresh", req[r].at = g, req'[r] = Idle,
                      grant[g].revoked = "none", grant'[g].revoked = "reuse",
                      grant[g].replay.of = req[r].token
               PROVE  window[g] # "open"
    OBVIOUS
  <2>1. PICK q \in Requests : DetectReuse(q)
    BY ReuseIsDetected
  <2>2. q = r
    <3>1. req[q].step \in Mutating /\ View(q) # None
      BY <2>1 DEF DetectReuse, Refreshing, Holding, Mutating
    <3>2. Write(q, Revoked(View(q), "reuse"))
      BY <2>1 DEF DetectReuse
    <3>3. q # r => req'[r].step = "refresh"
      BY <3>1, <3>2, WrittenOnly
    <3> QED
      BY <3>3, IdleTyped
  <2>3. View(r).replay = grant[g].replay
    BY <2>1, <2>2, ViewFacts DEF DetectReuse, Refreshing, Holding, Mutating
  <2>4. Reuse(View(r), g, req[r].token, req[r].caller)
    BY <2>1, <2>2 DEF DetectReuse
  <2> QED
    BY <2>3, <2>4 DEF Reuse, InWindow
<1> QED
  BY <1>1, InitOInv, NextOInv, PTL DEF Spec, DuplicateKeepsGrant

-----------------------------------------------------------------------------
(* The grants of the client are chains of tokens.                          *)

\* A step that neither rotates a grant nor creates one.
LEMMA MapsToEnd ==
    ASSUME OInv,
           \A g \in Grants :
               /\ grant'[g].current = grant[g].current
               /\ grant[g].revoked \in {"reuse", "client"} =>
                      grant'[g].revoked \in {"reuse", "client"}
               /\ grant'[g].revoked \in {"reuse", "client"} => Stored(g),
           exchanged' = exchanged
    PROVE  Chain!End
<1>1. \A g \in Grants : Stored(g) => grant[g].current # NoToken
  BY GeneratedTokens DEF OInv, GrantsOK, StoredOK
<1>2. [g \in Grants |-> grant'[g].current] = [g \in Grants |-> grant[g].current]
  OBVIOUS
<1> QED
  BY <1>1, <1>2 DEF Chain!End

LEMMA EndedIsStored ==
    ASSUME OInv, NEW g \in Grants, grant[g].revoked \in {"reuse", "client"}
    PROVE  Stored(g)
BY DEF OInv, GrantsOK, UnstoredOK

LEMMA MapsNew ==
    ASSUME OInv, generated < MaxTokens
    PROVE  Chain!New(generated + 1)
<1>1. generated + 1 \in Tokens /\ generated + 1 \notin Generated /\ generated + 1 # NoToken
  BY GeneratedTokens
<1>2. exchanged[generated + 1] = {}
  BY <1>1 DEF OInv, ExchangedOnce
<1>3. \A g \in Grants : grant[g].current # generated + 1
  BY <1>1 DEF OInv, GrantsOK, StoredOK, UnstoredOK
<1> QED
  BY <1>1, <1>2, <1>3 DEF Chain!New

LEMMA CreateMaps ==
    ASSUME OInv, NEW r \in Requests, NEW g \in Grants, CreateGrant(r, g)
    PROVE  Chain!Start(g)
<1> DEFINE new == generated + 1
           rec == [NoGrant EXCEPT !.of = req[r].at, !.current = new]
<1>1. rec.current = new /\ rec.revoked = "none"
  BY DEF NoGrant
<1>2. UnstoredOK(g) /\ generated < MaxTokens
  BY DEF CreateGrant, OInv, GrantsOK
<1>3. grant' = [grant EXCEPT ![g] = rec] /\ exchanged' = exchanged
  BY DEF CreateGrant
<1> HIDE DEF rec
<1>4. \A h \in Grants :
         /\ grant'[h].current = IF h = g THEN new ELSE grant[h].current
         /\ grant'[h].revoked = grant[h].revoked
  BY <1>1, <1>2, <1>3 DEF OInv, TypeOK, UnstoredOK
<1>5. Chain!New(new) /\ new \in Tokens
  BY <1>2, MapsNew, GeneratedTokens
<1> HIDE DEF new
<1>6. [h \in Grants |-> grant'[h].current]
         = [[h \in Grants |-> grant[h].current] EXCEPT ![g] = new]
  BY <1>4
<1>7. UNCHANGED <<{h \in Grants : grant[h].revoked \in {"reuse", "client"}},
                  {t \in Tokens : exchanged[t] # {}}>>
  BY <1>3, <1>4
<1> QED
  BY <1>2, <1>5, <1>6, <1>7 DEF Chain!Start, UnstoredOK

LEMMA RotateMaps ==
    ASSUME OInv, NEW r \in Requests, Rotate(r)
    PROVE  \E g \in Grants : Chain!Exchange(g)
<1> DEFINE g == req[r].at
           rec == View(r)
           new == generated + 1
           rotated == Rotated(rec, req[r].caller, new)
<1>1. req[r].step \in Mutating /\ rec # None /\ rec.revoked = "none" /\ generated < MaxTokens
  BY DEF Rotate, Refreshing, Holding, Mutating
<1>2. /\ g \in Grants /\ StoredOK(g) /\ rec \in Grant
      /\ rec.current = grant[g].current /\ grant[g].revoked \in {"none", "user"}
  BY <1>1, ViewFacts
<1>3. Chain!New(new) /\ new \in Tokens
  BY <1>1, MapsNew, GeneratedTokens
<1>4. grant[g].current \in Tokens /\ grant[g].current # NoToken
  BY <1>2, GeneratedTokens DEF StoredOK
<1>5. rotated.current = new /\ rotated.revoked = "none"
  BY <1>1, <1>2 DEF Rotated, Grant
<1>6. Write(r, rotated) /\ Send(r, new) /\ req[r].token = rec.current
  BY DEF Rotate
<1> HIDE DEF g, rec, new, rotated
<1>7. grant'[g] = rotated /\ \A h \in Grants \ {g} : grant'[h] = grant[h]
  BY <1>1, <1>6, WrittenOnly DEF g, rec
<1>8. [h \in Grants |-> grant'[h].current]
         = [[h \in Grants |-> grant[h].current] EXCEPT ![g] = new]
  BY <1>2, <1>5, <1>7
<1>9. {h \in Grants : grant'[h].revoked \in {"reuse", "client"}}
         = {h \in Grants : grant[h].revoked \in {"reuse", "client"}}
  BY <1>2, <1>5, <1>7
<1>10. {t \in Tokens : exchanged'[t] # {}}
          = {t \in Tokens : exchanged[t] # {}} \cup {grant[g].current}
  BY <1>2, <1>3, <1>4, <1>6 DEF Send, OInv, TypeOK
<1>11. Chain!Open(g)
  BY <1>2, <1>4 DEF Chain!Open
<1> QED
  BY <1>2, <1>3, <1>8, <1>9, <1>10, <1>11 DEF Chain!Exchange

LEMMA RevisionMaps ==
    ASSUME OInv, NEW r \in Requests,
           AnswerReplay(r) \/ DetectReuse(r) \/ RevokeToken(r) \/ Rewrite(r)
    PROVE  Chain!End
<1>1. req[r].step \in Mutating /\ View(r) # None
  BY DEF AnswerReplay, DetectReuse, RevokeToken, Rewrite, Refreshing, Holding, Mutating
<1>2. PICK new \in {View(r), Revoked(View(r), "reuse"), Revoked(View(r), "client")} :
         Write(r, new)
  BY DEF AnswerReplay, DetectReuse, RevokeToken, Rewrite
<1>3. /\ View(r) \in Grant /\ req[r].at \in Grants /\ Stored(req[r].at)
      /\ View(r).current = grant[req[r].at].current
      /\ \/ View(r).revoked = grant[req[r].at].revoked
         \/ View(r).revoked = "none" /\ grant[req[r].at].revoked = "user"
  BY <1>1, ViewFacts
<1>4. /\ new.current = grant[req[r].at].current
      /\ new.revoked \in {View(r).revoked, "reuse", "client"}
  <2>1. {"reuse", "client"} \subseteq Revocation
    BY DEF Revocation
  <2> QED
    BY <2>1, <1>3, RevokedTyped
<1>5. /\ grant'[req[r].at] = new
      /\ \A h \in Grants \ {req[r].at} : grant'[h] = grant[h]
  BY <1>1, <1>2, WrittenOnly
<1>6. exchanged' = exchanged
  BY ReplaySent DEF AnswerReplay, DetectReuse, RevokeToken, Rewrite, history
<1>7. \A g \in Grants :
         /\ grant'[g].current = grant[g].current
         /\ grant[g].revoked \in {"reuse", "client"} =>
                grant'[g].revoked \in {"reuse", "client"}
         /\ grant'[g].revoked \in {"reuse", "client"} => Stored(g)
  BY <1>3, <1>4, <1>5, EndedIsStored
<1> QED
  BY <1>6, <1>7, MapsToEnd

LEMMA StepMaps ==
    ASSUME OInv, Next
    PROVE  Chain!Next
<1>1. ASSUME NEW r \in Requests, NEW g \in Grants, CreateGrant(r, g) PROVE Chain!Next
  BY <1>1, CreateMaps DEF Chain!Next
<1>2. ASSUME NEW r \in Requests, Rotate(r) PROVE Chain!Next
  BY <1>2, RotateMaps DEF Chain!Next
<1>3. ASSUME NEW r \in Requests,
             AnswerReplay(r) \/ DetectReuse(r) \/ RevokeToken(r) \/ Rewrite(r)
      PROVE  Chain!Next
  BY <1>3, RevisionMaps DEF Chain!Next
<1>4. ASSUME NEW S \in SUBSET Grants, RevokeClient(S) PROVE Chain!Next
  <2>1. \A g \in Grants : /\ grant'[g] = IF g \in S THEN Revoked(grant[g], "user")
                                         ELSE grant[g]
                          /\ g \in S => grant[g].revoked = "none"
                          /\ grant[g] \in Grant
    BY <1>4 DEF RevokeClient, OInv, TypeOK
  <2>2. "user" \in Revocation
    BY DEF Revocation
  <2>3. \A g \in Grants :
           /\ grant'[g].current = grant[g].current
           /\ grant[g].revoked \in {"reuse", "client"} =>
                  grant'[g].revoked \in {"reuse", "client"}
           /\ grant'[g].revoked \in {"reuse", "client"} => Stored(g)
    BY <2>1, <2>2, RevokedTyped, EndedIsStored
  <2>4. exchanged' = exchanged
    BY <1>4 DEF RevokeClient, history
  <2> QED
    BY <2>3, <2>4, MapsToEnd DEF Chain!Next
<1>5. ASSUME grant' = grant, exchanged' = exchanged PROVE Chain!Next
  BY <1>5, MapsToEnd, EndedIsStored DEF Chain!Next
<1> QED
  BY <1>1, <1>2, <1>3, <1>4, <1>5
     DEF Next, CreateConnection, CountConnections, InsertConnection, EnsureConnection,
         RevokeConnection, DeleteConnection, BeginAuthorization, ExpireAuthorization,
         ResumeAuthorization, DenyAuthorization, CheckConnection, CreateCode,
         CreateCodeCrash, ExpireCode, ReadCode, ReadAgain, BeginRefresh, BeginRevoke,
         Authenticate, Admit, RequestEnds, WindowMoves, ExpireRefresh, LapseAccess, history

\* The grants of a client implement TokenChain on either store: a token is exchanged
\* once, for the next of its chain, and a grant that was ended issues none again.
THEOREM GrantsImplementTokenChain == Spec => ImplementsTokenChain
<1>1. Init => Chain!Init
  BY DEF Init, Chain!Init, NoGrant
<1>2. OInv /\ OInv' /\ [Next]_vars
        => [Chain!Next]_<<[g \in Grants |-> grant[g].current],
                          {g \in Grants : grant[g].revoked \in {"reuse", "client"}},
                          {t \in Tokens : exchanged[t] # {}}>>
  <2>1. CASE UNCHANGED vars
    BY <2>1 DEF vars
  <2>2. ASSUME OInv, OInv', Next PROVE Chain!Next
    BY <2>2, StepMaps
  <2> QED
    BY <2>1, <2>2
<1> QED
  BY <1>1, <1>2, InitOInv, NextOInv, PTL DEF Spec, ImplementsTokenChain, Chain!Spec
=============================================================================
