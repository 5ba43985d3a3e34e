---------------------------- MODULE OAuthGrants ----------------------------
(***************************************************************************)
(* How an MCP client is authorized: src/modules/mcp/oauth.js on top of     *)
(* oauth-store.js, for one client of one user, and the connections of      *)
(* connections.js that its grants are bound to.                            *)
(*                                                                         *)
(* The user approves an authorization, the client exchanges the code for a *)
(* grant, then refreshes its tokens.  A grant is changed by               *)
(* mutateOAuthGrant only, apart from the revocation of all grants of a     *)
(* client: one atomic update of the JSON file; on MongoDB a read, then a   *)
(* replacement if the revision has not moved, up to eight times.           *)
(*                                                                         *)
(* An access and a refresh token are generated together and are one number *)
(* here.  Whatever was sent may be presented at any time, again and again. *)
(***************************************************************************)
EXTENDS Naturals, FiniteSets

CONSTANTS
    Connections,    \* ids, each given out once
    MaxActive,      \* MAX_ACTIVE_CONNECTIONS_PER_USER
    Authorizations,
    Codes,
    Grants,
    Callers,        \* fingerprints of user agents
    Requests,       \* requests being served, by any server process
    MaxTokens,      \* bound: how many pairs of tokens a behaviour generates
    MaxLapsed,      \* bound: how many of their access tokens expire
    KeepPrevious,   \* rotated refresh tokens a grant remembers (10 in the code)
    KeepAccess,     \* older access tokens it keeps as it rotates (15 in the code)
    None

ASSUME OAuthAssumption ==
    /\ MaxActive \in Nat
    /\ MaxTokens \in Nat
    /\ MaxLapsed \in Nat
    /\ KeepPrevious \in Nat \ {0}
    /\ KeepAccess \in Nat \ {0}
    /\ None \notin Callers \cup Authorizations \cup Codes \cup Grants \cup Connections

Tokens == 1..MaxTokens
NoToken == 0

VARIABLES
    store,      \* "json" or "mongo"
    provisioned,\* connections of a kind that bootstrap creates and enables
    conn,       \* conn[c]: the state of connection c
    auth,       \* auth[a]: the authorization request
    code,       \* code[k]: the authorization code
    known,      \* codes that were sent to the client
    grant,      \* grant[g]: the grant record
    window,     \* window[g]: the retry window of the last rotation, then its expiry
    lapsed,     \* the access tokens 1..lapsed expired
    generated,  \* how many pairs were generated
    req,        \* req[r]: the request being served
    sent,       \* sent[g]: the tokens of grant g that were sent to the client
    exchanged   \* exchanged[t]: the tokens sent in exchange for token t

fixed == <<store, provisioned>>
flow == <<conn, auth, code, known>>
time == <<window, lapsed>>
history == <<sent, exchanged>>
vars == <<store, provisioned, conn, auth, code, known, grant, window, lapsed,
          generated, req, sent, exchanged>>

-----------------------------------------------------------------------------
Revocation == {"none", "reuse", "client", "user"}

Replay == [of : Tokens \cup {NoToken}, by : Callers \cup {None}, sealed : Tokens \cup {NoToken}]

NoReplay == [of |-> NoToken, by |-> None, sealed |-> NoToken]

Grant ==
    [of : Codes \cup {None}, current : Tokens \cup {NoToken},
     previous : SUBSET Tokens, access : SUBSET Tokens,
     replay : Replay, revoked : Revocation]

NoGrant == [of |-> None, current |-> NoToken, previous |-> {}, access |-> {},
            replay |-> NoReplay, revoked |-> "none"]

Mutating == {"refresh", "revoke", "touch"}

\* at: the authorization, code or grant the request is about.
Request ==
    [step : {"idle", "resumed", "checked", "exchange", "admit", "create"} \cup Mutating,
     at : Authorizations \cup Codes \cup Grants \cup {None},
     token : Tokens \cup {NoToken}, caller : Callers \cup {None},
     copy : Grant \cup {None}]

Idle == [step |-> "idle", at |-> None, token |-> NoToken, caller |-> None, copy |-> None]

TypeOK ==
    /\ store \in {"json", "mongo"}
    /\ provisioned \subseteq Connections
    /\ conn \in [Connections -> {"absent", "enabled", "revoked", "deleted"}]
    /\ auth \in [Authorizations -> [status : {"absent", "open", "over"},
                                    connection : Connections \cup {None}]]
    /\ code \in [Codes -> [status : {"absent", "open", "over"},
                           of : Authorizations \cup {None}]]
    /\ known \subseteq Codes
    /\ grant \in [Grants -> Grant]
    /\ window \in [Grants -> {"open", "rekeyed", "over", "expired"}]
    /\ generated \in 0..MaxTokens
    /\ lapsed \in 0..generated
    /\ req \in [Requests -> Request]
    /\ sent \in [Grants -> SUBSET Tokens]
    /\ exchanged \in [Tokens -> SUBSET Tokens]

Init ==
    /\ store \in {"json", "mongo"}
    /\ provisioned \in SUBSET Connections
    /\ conn = [c \in Connections |-> "absent"]
    /\ auth = [a \in Authorizations |-> [status |-> "absent", connection |-> None]]
    /\ code = [k \in Codes |-> [status |-> "absent", of |-> None]]
    /\ known = {}
    /\ grant = [g \in Grants |-> NoGrant]
    /\ window = [g \in Grants |-> "over"]
    /\ lapsed = 0
    /\ generated = 0
    /\ req = [r \in Requests |-> Idle]
    /\ sent = [g \in Grants |-> {}]
    /\ exchanged = [t \in Tokens |-> {}]

Stored(g) == grant[g].of # None
ConnectionOf(g) == auth[code[grant[g].of].of].connection

Begin(r, request) == req[r] = Idle /\ req' = [req EXCEPT ![r] = request]
End(r) == req' = [req EXCEPT ![r] = Idle]

-----------------------------------------------------------------------------
(* The connections of the user.                                            *)

Enabled == {c \in Connections : conn[c] = "enabled"}

\* Creating a connection also drops those revoked three months ago.
Created(c, old) == [x \in Connections |-> IF x = c THEN "enabled"
                                          ELSE IF x \in old THEN "deleted" ELSE conn[x]]

CreateConnection(c) ==
    /\ store = "json"
    /\ c \notin provisioned
    /\ conn[c] = "absent"
    /\ Cardinality(Enabled) < MaxActive
    /\ \E old \in SUBSET {x \in Connections : conn[x] = "revoked"} : conn' = Created(c, old)
    /\ UNCHANGED <<fixed, auth, code, known, grant, time, generated, req, history>>

\* On MongoDB the connections are counted before the new one is inserted.
CountConnections(r) ==
    /\ store = "mongo"
    /\ Cardinality(Enabled) < MaxActive
    /\ Begin(r, [Idle EXCEPT !.step = "create"])
    /\ \E old \in SUBSET {x \in Connections : conn[x] = "revoked"} :
           conn' = [x \in Connections |-> IF x \in old THEN "deleted" ELSE conn[x]]
    /\ UNCHANGED <<fixed, auth, code, known, grant, time, generated, history>>

InsertConnection(r, c) ==
    /\ req[r].step = "create"
    /\ c \notin provisioned
    /\ conn[c] = "absent"
    /\ conn' = [conn EXCEPT ![c] = "enabled"]
    /\ End(r)
    /\ UNCHANGED <<fixed, auth, code, known, grant, time, generated, history>>

\* ensureSharePointMcpConnection and its like: the record of this kind is
\* enabled, whether it is new, in use or revoked.
EnsureConnection(c) ==
    /\ c \in provisioned
    /\ \/ conn[c] \in {"enabled", "revoked"}
       \/ /\ conn[c] = "absent"
          /\ \A x \in provisioned : conn[x] \notin {"enabled", "revoked"}
    /\ conn' = [conn EXCEPT ![c] = "enabled"]
    /\ UNCHANGED <<fixed, auth, code, known, grant, time, generated, req, history>>

RevokeConnection(c) ==
    /\ conn[c] \in {"enabled", "revoked"}
    /\ conn' = [conn EXCEPT ![c] = "revoked"]
    /\ UNCHANGED <<fixed, auth, code, known, grant, time, generated, req, history>>

DeleteConnection(c) ==
    /\ c \notin provisioned
    /\ conn[c] \in {"enabled", "revoked"}
    /\ conn' = [conn EXCEPT ![c] = "deleted"]
    /\ UNCHANGED <<fixed, auth, code, known, grant, time, generated, req, history>>

-----------------------------------------------------------------------------
(* The authorization, from the client's request to the code.               *)

\* The connection is one of those eligible now; the user picks it later.
BeginAuthorization(a, c) ==
    /\ auth[a].status = "absent"
    /\ conn[c] = "enabled"
    /\ auth' = [auth EXCEPT ![a] = [status |-> "open", connection |-> c]]
    /\ UNCHANGED <<fixed, conn, code, known, grant, time, generated, req, history>>

ExpireAuthorization(a) ==
    /\ auth[a].status = "open"
    /\ auth' = [auth EXCEPT ![a].status = "over"]
    /\ UNCHANGED <<fixed, conn, code, known, grant, time, generated, req, history>>

\* The user's answer arrives.  On approval the password is checked next.
ResumeAuthorization(r, a) ==
    /\ auth[a].status = "open"
    /\ conn[auth[a].connection] = "enabled"
    /\ Begin(r, [Idle EXCEPT !.step = "resumed", !.at = a])
    /\ UNCHANGED <<fixed, flow, grant, time, generated, history>>

\* A denial is answered even if the authorization was completed meanwhile.
DenyAuthorization(r) ==
    /\ req[r].step = "resumed"
    /\ auth' = [auth EXCEPT ![req[r].at].status = "over"]
    /\ End(r)
    /\ UNCHANGED <<fixed, conn, code, known, grant, time, generated, history>>

CheckConnection(r) ==
    /\ req[r].step = "resumed"
    /\ conn[auth[req[r].at].connection] = "enabled"
    /\ req' = [req EXCEPT ![r].step = "checked"]
    /\ UNCHANGED <<fixed, flow, grant, time, generated, history>>

Consumable(a) == auth[a].status = "open"

CodeCreated(k, a) == code' = [code EXCEPT ![k] = [status |-> "open", of |-> a]]

CreateCode(r, k) ==
    LET a == req[r].at
    IN  /\ req[r].step = "checked"
        /\ Consumable(a)
        /\ code[k].status = "absent"
        /\ CodeCreated(k, a)
        /\ auth' = [auth EXCEPT ![a].status = "over"]
        /\ known' = known \cup {k}
        /\ End(r)
        /\ UNCHANGED <<fixed, conn, grant, time, generated, history>>

\* The JSON files of the codes and of the authorizations are written one after
\* the other: a process that stops in between leaves a code nobody was sent.
CreateCodeCrash(r, k) ==
    /\ store = "json"
    /\ req[r].step = "checked"
    /\ Consumable(req[r].at)
    /\ code[k].status = "absent"
    /\ CodeCreated(k, req[r].at)
    /\ req' = [q \in Requests |-> Idle]
    /\ UNCHANGED <<fixed, conn, auth, known, grant, time, generated, history>>

-----------------------------------------------------------------------------
(* The code is exchanged for a grant.                                      *)

ExpireCode(k) ==
    /\ code[k].status = "open"
    /\ code' = [code EXCEPT ![k].status = "over"]
    /\ UNCHANGED <<fixed, conn, auth, known, grant, time, generated, req, history>>

\* The code is read; its binding to the client and the verifier is in order.
ReadCode(r, k) ==
    /\ k \in known
    /\ code[k].status = "open"
    /\ Begin(r, [Idle EXCEPT !.step = "exchange", !.at = k])
    /\ UNCHANGED <<fixed, flow, grant, time, generated, history>>

\* Mutant of Redeemable: the code that was read is not looked at again.
RedeemableUnchecked(k) == code[k].status # "absent"

\* The filter of the update that consumes the code.
Redeemable(k) == code[k].status = "open"

CreateGrant(r, g) ==
    LET k == req[r].at
    IN  /\ req[r].step = "exchange"
        /\ Redeemable(k)
        /\ ~Stored(g)
        /\ generated < MaxTokens
        /\ generated' = generated + 1
        /\ grant' = [grant EXCEPT ![g] = [NoGrant EXCEPT !.of = k, !.current = generated + 1]]
        /\ sent' = [sent EXCEPT ![g] = {generated + 1}]
        /\ code' = [code EXCEPT ![k].status = "over"]
        /\ End(r)
        /\ UNCHANGED <<fixed, conn, auth, known, time, exchanged>>

-----------------------------------------------------------------------------
(* mutateOAuthGrant.                                                       *)

\* What is read of grant g: nothing yet on JSON, where the update reads it.
Copied(g) == IF store = "mongo" THEN grant[g] ELSE None

BeginMutation(r, g, request) ==
    /\ Stored(g)
    /\ Begin(r, [request EXCEPT !.at = g, !.copy = Copied(g)])

\* Another mutation came first: the grant is read again.
ReadAgain(r) ==
    /\ store = "mongo"
    /\ req[r].step \in Mutating
    /\ req[r].copy = None
    /\ req' = [req EXCEPT ![r].copy = grant[req[r].at]]
    /\ UNCHANGED <<fixed, flow, grant, time, generated, history>>

\* What the mutator is given.
View(r) == IF store = "mongo" THEN req[r].copy ELSE grant[req[r].at]

\* Mutant of Overtaken: a replacement does not count as a revision.
OvertakenNobody(r) == {}

\* The requests whose copy a write by r makes useless: its revision is over.
Overtaken(r) == {q \in Requests \ {r} : req[q].at = req[r].at}

Write(r, rec) ==
    /\ grant' = [grant EXCEPT ![req[r].at] = rec]
    /\ req' = [q \in Requests |->
                  IF q = r THEN Idle
                  ELSE IF q \in Overtaken(r) THEN [req[q] EXCEPT !.copy = None]
                  ELSE req[q]]

-----------------------------------------------------------------------------
(* refreshOAuthToken.                                                      *)

Newest(n, S) == {t \in S : Cardinality({u \in S : u > t}) < n}
Unexpired(S) == {t \in S : t > lapsed}

\* Mutant of KeptAccess: only the access token it replaces is kept.
KeptAccessLast(rec) == Unexpired({rec.current})

\* previousAccessTokens once another access token is created.
KeptAccess(rec) == Newest(KeepAccess, Unexpired(rec.access)) \cup Unexpired({rec.current})

Rotated(rec, caller, new) ==
    [rec EXCEPT
        !.current = new,
        !.previous = Newest(KeepPrevious, @ \cup {rec.current}),
        !.access = KeptAccess(rec),
        !.replay = IF caller = None THEN NoReplay
                   ELSE [of |-> rec.current, by |-> caller, sealed |-> new]]

\* Mutant of Revoked: a reason no reader of the grant knows.
RevokedMisnamed(rec, reason) == [rec EXCEPT !.revoked = "revoked"]

Revoked(rec, reason) == [rec EXCEPT !.revoked = reason]

\* replayVerdict: 'replay' and 'unverified-client' need the window, and only
\* 'replay' the caller that rotated the token.
InWindow(rec, g, t) == rec.replay.of = t /\ window[g] \in {"open", "rekeyed"}
SameCaller(rec, c) == c # None /\ rec.replay.by = c

BeginRefresh(r, g, t, c) ==
    /\ t \in sent[g]
    /\ BeginMutation(r, g, [Idle EXCEPT !.step = "refresh", !.token = t, !.caller = c])
    /\ UNCHANGED <<fixed, flow, grant, time, generated, history>>

Holding(r, step) == req[r].step = step /\ View(r) # None

\* Mutant of Refreshing: a grant that was revoked is refreshed all the same.
RefreshingRevoked(r) == Holding(r, "refresh")

Refreshing(r) == Holding(r, "refresh") /\ View(r).revoked = "none"

Send(r, new) ==
    /\ sent' = [sent EXCEPT ![req[r].at] = @ \cup {new}]
    /\ exchanged' = [exchanged EXCEPT ![req[r].token] = @ \cup {new}]

Rotate(r) ==
    LET g == req[r].at
        rec == View(r)
    IN  /\ Refreshing(r)
        /\ window[g] # "expired"
        /\ req[r].token = rec.current
        /\ generated < MaxTokens
        /\ Write(r, Rotated(rec, req[r].caller, generated + 1))
        /\ generated' = generated + 1
        /\ Send(r, generated + 1)
        /\ window' = [window EXCEPT ![g] = IF req[r].caller = None THEN "over" ELSE "open"]
        /\ UNCHANGED <<fixed, flow, lapsed>>

\* A retry by the caller that rotated the token is given the same answer.
AnswerReplay(r) ==
    LET g == req[r].at
        rec == View(r)
    IN  /\ Refreshing(r)
        /\ window[g] # "expired"
        /\ req[r].token \in rec.previous
        /\ InWindow(rec, g, req[r].token)
        /\ SameCaller(rec, req[r].caller)
        /\ window[g] = "open"
        /\ Write(r, rec)
        /\ Send(r, rec.replay.sealed)
        /\ UNCHANGED <<fixed, flow, time, generated>>

\* Mutant of Reuse: a caller that cannot be confirmed counts as a thief.
ReuseUnverified(rec, g, t, c) ==
    /\ t \in rec.previous
    /\ ~(InWindow(rec, g, t) /\ SameCaller(rec, c) /\ window[g] = "open")

\* Outside the window, or when the sealed answer cannot be opened any more.
Reuse(rec, g, t, c) ==
    /\ t \in rec.previous
    /\ ~InWindow(rec, g, t) \/ (SameCaller(rec, c) /\ window[g] = "rekeyed")

DetectReuse(r) ==
    LET g == req[r].at
        rec == View(r)
    IN  /\ Refreshing(r)
        /\ window[g] # "expired"
        /\ Reuse(rec, g, req[r].token, req[r].caller)
        /\ Write(r, Revoked(rec, "reuse"))
        /\ UNCHANGED <<fixed, flow, time, generated, history>>

-----------------------------------------------------------------------------
(* revokeOAuthToken, revokeIdeOAuthClient and authenticateMcpOAuthToken.   *)

BeginRevoke(r, g, t) ==
    /\ t \in sent[g]
    /\ BeginMutation(r, g, [Idle EXCEPT !.step = "revoke", !.token = t])
    /\ UNCHANGED <<fixed, flow, grant, time, generated, history>>

\* The token is the current access or refresh token, or an older access token.
RevokeToken(r) ==
    LET rec == View(r)
    IN  /\ Holding(r, "revoke")
        /\ req[r].token \in {rec.current} \cup rec.access
        /\ Write(r, Revoked(rec, "client"))
        /\ UNCHANGED <<fixed, flow, time, generated, history>>

\* Mutations that leave all of this as it was, and count as a revision: the
\* last use is noted; a refresh by an unconfirmed caller, of an expired token or
\* for another resource is refused and noted in the grant's health; the token to
\* be revoked is not one of the grant's, such as a refresh token rotated out.
Rewrite(r) ==
    LET rec == View(r)
        t == req[r].token
    IN  /\ \/ Holding(r, "touch")
           \/ Refreshing(r) /\ t \in {rec.current} \cup rec.previous
           \/ Holding(r, "revoke") /\ t # rec.current
        /\ Write(r, rec)
        /\ UNCHANGED <<fixed, flow, time, generated, history>>

\* revokeOAuthClientGrants: one update of the file; MongoDB revokes one
\* document after another and leaves their revisions alone.
RevokeClient(S) ==
    LET open == {g \in Grants : Stored(g) /\ grant[g].revoked = "none"}
    IN  /\ S # {}
        /\ S \subseteq open
        /\ IF store = "json" THEN S = open ELSE Cardinality(S) = 1
        /\ grant' = [g \in Grants |-> IF g \in S THEN Revoked(grant[g], "user") ELSE grant[g]]
        /\ UNCHANGED <<fixed, flow, time, generated, req, history>>

\* A call presents an access token: the grant is read ...
Authenticate(r, g, t) ==
    /\ t \in sent[g]
    /\ t \in Unexpired({grant[g].current} \cup grant[g].access)
    /\ grant[g].revoked = "none"
    /\ Begin(r, [Idle EXCEPT !.step = "admit", !.at = g])
    /\ UNCHANGED <<fixed, flow, grant, time, generated, history>>

\* ... then its connection; the call is admitted, and its time noted.
Admit(r) ==
    LET g == req[r].at
    IN  /\ req[r].step = "admit"
        /\ conn[ConnectionOf(g)] = "enabled"
        /\ req' = [req EXCEPT ![r] = [Idle EXCEPT !.step = "touch", !.at = g,
                                                  !.copy = Copied(g)]]
        /\ UNCHANGED <<fixed, flow, grant, time, generated, history>>

\* A request is refused by a check that fails, gives up after eight attempts,
\* meets an error of the store, or its process stops.
RequestEnds(r) ==
    /\ req[r] # Idle
    /\ End(r)
    /\ UNCHANGED <<fixed, flow, grant, time, generated, history>>

-----------------------------------------------------------------------------
(* Time, and a change of the key that seals the answers.                   *)

WindowMoves(g) ==
    /\ \/ window[g] = "open" /\ window' = [window EXCEPT ![g] = "rekeyed"]
       \/ window[g] \in {"open", "rekeyed"} /\ window' = [window EXCEPT ![g] = "over"]
    /\ UNCHANGED <<fixed, flow, grant, lapsed, generated, req, history>>

\* The retry window is over long before the refresh token expires.
ExpireRefresh(g) ==
    /\ Stored(g)
    /\ window[g] = "over"
    /\ window' = [window EXCEPT ![g] = "expired"]
    /\ UNCHANGED <<fixed, flow, grant, lapsed, generated, req, history>>

\* Access tokens live equally long, so they expire in the order of generation.
LapseAccess ==
    /\ lapsed < generated
    /\ lapsed < MaxLapsed
    /\ lapsed' = lapsed + 1
    /\ UNCHANGED <<fixed, flow, grant, window, generated, req, history>>

Next ==
    \/ \E c \in Connections : CreateConnection(c)
    \/ \E r \in Requests : CountConnections(r)
    \/ \E r \in Requests, c \in Connections : InsertConnection(r, c)
    \/ \E c \in Connections : EnsureConnection(c)
    \/ \E c \in Connections : RevokeConnection(c)
    \/ \E c \in Connections : DeleteConnection(c)
    \/ \E a \in Authorizations, c \in Connections : BeginAuthorization(a, c)
    \/ \E a \in Authorizations : ExpireAuthorization(a)
    \/ \E r \in Requests, a \in Authorizations : ResumeAuthorization(r, a)
    \/ \E r \in Requests : DenyAuthorization(r)
    \/ \E r \in Requests : CheckConnection(r)
    \/ \E r \in Requests, k \in Codes : CreateCode(r, k)
    \/ \E r \in Requests, k \in Codes : CreateCodeCrash(r, k)
    \/ \E k \in Codes : ExpireCode(k)
    \/ \E r \in Requests, k \in Codes : ReadCode(r, k)
    \/ \E r \in Requests, g \in Grants : CreateGrant(r, g)
    \/ \E r \in Requests : ReadAgain(r)
    \/ \E r \in Requests, g \in Grants, t \in Tokens, c \in Callers \cup {None} :
           BeginRefresh(r, g, t, c)
    \/ \E r \in Requests : Rotate(r)
    \/ \E r \in Requests : AnswerReplay(r)
    \/ \E r \in Requests : DetectReuse(r)
    \/ \E r \in Requests, g \in Grants, t \in Tokens : BeginRevoke(r, g, t)
    \/ \E r \in Requests : RevokeToken(r)
    \/ \E r \in Requests : Rewrite(r)
    \/ \E S \in SUBSET Grants : RevokeClient(S)
    \/ \E r \in Requests, g \in Grants, t \in Tokens : Authenticate(r, g, t)
    \/ \E r \in Requests : Admit(r)
    \/ \E r \in Requests : RequestEnds(r)
    \/ \E g \in Grants : WindowMoves(g)
    \/ \E g \in Grants : ExpireRefresh(g)
    \/ LapseAccess

Spec == Init /\ [][Next]_vars

-----------------------------------------------------------------------------
(* What the grants promise.                                                *)

\* However often the user answers, the client exchanges and the process stops,
\* an authorization yields one grant at most (consumeAuthorizationAndCreateCode,
\* consumeCodeAndCreateGrant).
OneGrantPerAuthorization ==
    \A g, h \in Grants :
        Stored(g) /\ Stored(h) /\ code[grant[g].of].of = code[grant[h].of].of => g = h

\* All refreshes of one token that are answered are answered with one successor
\* (refreshOAuthToken), however they overlap or are repeated.
OneSuccessor == \A t \in Tokens : Cardinality(exchanged[t]) <= 1

\* "Preserve its original expiry" (createGrantTokens): whatever refreshes,
\* touches and retries overlap, the newest tokens that were sent to a client are
\* those its grant knows, until they expire or the grant is revoked.
SentTokensHonoured ==
    \A g \in Grants :
        Stored(g) /\ grant[g].revoked = "none" =>
            /\ \A t \in sent[g] : t <= grant[g].current
            /\ Newest(KeepAccess + 2, Unexpired(sent[g]))
                   \subseteq {grant[g].current} \cup grant[g].access

\* "A refused refresh costs a round trip, a revoked grant costs the user their
\* task" (refreshOAuthToken): a duplicate of the last refresh does not end the
\* grant while its retry window is open, whoever it comes from.
DuplicateKeepsGrant ==
    [][\A r \in Requests, g \in Grants :
          /\ req[r].step = "refresh" /\ req[r].at = g
          /\ req'[r] = Idle
          /\ grant[g].revoked = "none" /\ grant'[g].revoked = "reuse"
          /\ grant[g].replay.of = req[r].token
          => window[g] # "open"]_vars

\* A grant that was revoked stays revoked, but for a revocation by the user on
\* MongoDB, which a mutation under way may overwrite (see RevocationStands).
RevocationIsFinal ==
    [][\A g \in Grants :
          grant[g].revoked \in {"reuse", "client"} \/ store = "json" =>
              (grant[g].revoked # "none" => grant'[g].revoked # "none")]_vars

\* A grant is a chain of tokens that ends for good when a token was reused or
\* the client revoked it.
Chain == INSTANCE TokenChain WITH
    Sessions <- Grants,
    current <- [g \in Grants |-> grant[g].current],
    ended <- {g \in Grants : grant[g].revoked \in {"reuse", "client"}},
    spent <- {t \in Tokens : exchanged[t] # {}}

ImplementsTokenChain == Chain!Spec

\* README: "Revoke one IDE OAuth client and its tokens".  The code lets a refresh
\* or a touch that read the grant before write it back unrevoked.
RevocationStands ==
    [][\A g \in Grants : grant[g].revoked = "user" => grant'[g].revoked # "none"]_vars
=============================================================================
