------------------------------ MODULE Accounts ------------------------------
(***************************************************************************)
(* An account and the sessions opened with its password: login, lockout,   *)
(* hash upgrade, change of password and logout everywhere.                 *)
(*                                                                         *)
(* src/modules/auth/auth-service.js awaits between its steps, on the       *)
(* password hash as well as on the store, so requests interleave at every  *)
(* await.  updateUser (src/modules/users/user-repo.js) is one atomic step  *)
(* on the JSON file; on MongoDB it reads the record and replaces it whole  *)
(* provided that its revision did not move, up to eight times.             *)
(*                                                                         *)
(* A password is the number of the change that chose it, 0 being the one   *)
(* the account was created with: no two are equal.                         *)
(***************************************************************************)
EXTENDS Naturals

CONSTANTS
    Requests,       \* requests being served, by any server process
    Sessions,       \* bound: the sessions that are opened
    MaxPassword,    \* bound: how many changes of the password are requested
    MaxFailures,    \* config.lockout.maxFailures
    None

ASSUME AccountsAssumption ==
    /\ MaxPassword \in Nat
    /\ MaxFailures \in Nat \ {0}

Passwords == 0..MaxPassword

VARIABLES
    store,      \* "json" or "mongo"
    legacy,     \* the account was created when hashing was cheaper
    user,       \* the user record
    sess,       \* sess[s]: the session record
    req,        \* req[r]: the request being served
    unmoved,    \* requests whose copy of the user is of its present revision
    chosen,     \* passwords chosen so far
    missed,     \* wrong passwords answered since the last success
    written,    \* the password most recently written by a change
    finished    \* the passwords whose change was acknowledged

vars == <<store, legacy, user, sess, req, unmoved, chosen, missed, written, finished>>

history == <<missed, written, finished>>

-----------------------------------------------------------------------------
\* lockedUntil is null, in the future or in the past.  Failures beyond the
\* maximum only lengthen the lock and are not counted.
User == [password : Passwords, strong : BOOLEAN,
         failed : 0..MaxFailures, lock : {"none", "held", "over"}]

\* late: the login that opened it was under way when a change of the password
\* revoked the sessions.
Session == [status : {"absent", "active", "revoked"},
            password : Passwords, late : BOOLEAN]

NoSession == [status |-> "absent", password |-> 0, late |-> FALSE]

Hash == [password : Passwords, strong : BOOLEAN]

Updating == {"fail", "clear", "upgrade", "write"}

Request ==
    [step : {"idle", "login", "change", "open", "revoke"} \cup Updating,
     tried : Passwords, next : Passwords, late : BOOLEAN,
     found : Hash \cup {None}, copy : User \cup {None}]

Idle == [step |-> "idle", tried |-> 0, next |-> 0, late |-> FALSE,
         found |-> None, copy |-> None]

TypeOK ==
    /\ store \in {"json", "mongo"}
    /\ legacy \in BOOLEAN
    /\ user \in User
    /\ sess \in [Sessions -> Session]
    /\ req \in [Requests -> Request]
    /\ unmoved \subseteq Requests
    /\ chosen \in Passwords
    /\ missed \in 0..MaxFailures
    /\ written \in Passwords
    /\ finished \subseteq Passwords

Init ==
    /\ store \in {"json", "mongo"}
    /\ legacy \in BOOLEAN
    /\ user \in [password : {0}, strong : BOOLEAN, failed : {0}, lock : {"none"}]
    /\ user.strong <=> ~legacy
    /\ sess = [s \in Sessions |-> NoSession]
    /\ req = [r \in Requests |-> Idle]
    /\ unmoved = {}
    /\ chosen = 0
    /\ missed = 0
    /\ written = 0
    /\ finished = {0}

-----------------------------------------------------------------------------
(* What each request goes through.                                         *)

\* Mutants of After, none of them part of the specification: every login
\* writes the hash of its password; or the sessions are revoked before the
\* new password is written.
AfterUpgrading(step, found) ==
    CASE step = "login" -> "clear"  [] step = "clear" -> "upgrade"
      [] step = "upgrade" -> "open" [] step = "change" -> "write"
      [] step = "write" -> "revoke" [] OTHER -> "idle"

AfterRevoking(step, found) ==
    CASE step = "login" -> "clear"
      [] step = "clear" -> IF found.strong THEN "open" ELSE "upgrade"
      [] step = "upgrade" -> "open" [] step = "change" -> "revoke"
      [] step = "revoke" -> "write" [] OTHER -> "idle"

\* The step that follows another when the password was right.
After(step, found) ==
    CASE step = "login" -> "clear"
      [] step = "clear" -> IF found.strong THEN "open" ELSE "upgrade"
      [] step = "upgrade" -> "open" [] step = "change" -> "write"
      [] step = "write" -> "revoke" [] OTHER -> "idle"

Proceeded(r) ==
    IF After(req[r].step, req[r].found) = "idle" THEN Idle
    ELSE [req[r] EXCEPT !.step = After(@, req[r].found), !.copy = None]

\* A change of the password is acknowledged after its last step.
Acknowledged(r) ==
    IF req[r].next # 0 /\ Proceeded(r) = Idle THEN finished \cup {req[r].next}
    ELSE finished

Failed(u) ==
    IF u.failed + 1 >= MaxFailures
    THEN [u EXCEPT !.failed = MaxFailures, !.lock = "held"]
    ELSE [u EXCEPT !.failed = @ + 1]

\* What the request's mutator makes of a user record.
Updated(r, u) ==
    CASE req[r].step = "fail" -> Failed(u)
      [] req[r].step = "clear" -> [u EXCEPT !.failed = 0, !.lock = "none"]
      [] req[r].step = "upgrade" ->
            [u EXCEPT !.password = req[r].tried, !.strong = TRUE]
      [] req[r].step = "write" ->
            [u EXCEPT !.password = req[r].next, !.strong = TRUE]

\* The user record becomes u, and the request goes on.
Update(r, u) ==
    /\ user' = Updated(r, u)
    /\ unmoved' = {}
    /\ missed' = CASE req[r].step = "fail" /\ missed < MaxFailures -> missed + 1
                   [] req[r].step = "clear" -> 0
                   [] OTHER -> missed
    /\ written' = IF req[r].step = "write" THEN req[r].next ELSE written
    /\ finished' = Acknowledged(r)
    /\ req' = [req EXCEPT ![r] = Proceeded(r)]
    /\ UNCHANGED <<store, legacy, sess, chosen>>

-----------------------------------------------------------------------------
(* login and changePassword.                                               *)

UserHash == [password |-> user.password, strong |-> user.strong]

\* A login finds the account, unless it is locked.
LoginFind(r, p) ==
    /\ req[r].step = "idle"
    /\ user.lock # "held"
    /\ req' = [req EXCEPT ![r] = [Idle EXCEPT !.step = "login", !.tried = p,
                                              !.found = UserHash]]
    /\ UNCHANGED <<store, legacy, user, sess, unmoved, chosen, history>>

\* A client with an active session asks for a new password.
ChangeFind(r, p) ==
    /\ req[r].step = "idle"
    /\ \E s \in Sessions : sess[s].status = "active"
    /\ chosen < MaxPassword
    /\ chosen' = chosen + 1
    /\ req' = [req EXCEPT ![r] = [Idle EXCEPT !.step = "change", !.tried = p,
                                              !.next = chosen + 1, !.found = UserHash]]
    /\ UNCHANGED <<store, legacy, user, sess, unmoved, history>>

\* verifyPassword, on the hash that was found.
Verified(r) ==
    /\ req[r].step \in {"login", "change"}
    /\ req[r].tried = req[r].found.password
    /\ req' = [req EXCEPT ![r] = Proceeded(r)]
    /\ UNCHANGED <<store, legacy, user, sess, unmoved, chosen, history>>

WrongPassword(r) ==
    /\ req[r].step \in {"login", "change"}
    /\ req[r].tried # req[r].found.password
    /\ req' = [req EXCEPT ![r] = IF @.step = "login"
                                 THEN [@ EXCEPT !.step = "fail"] ELSE Idle]
    /\ UNCHANGED <<store, legacy, user, sess, unmoved, chosen, history>>

UpdateJson(r) ==
    /\ store = "json"
    /\ req[r].step \in Updating
    /\ Update(r, user)

UpdateRead(r) ==
    /\ store = "mongo"
    /\ req[r].step \in Updating
    /\ req[r].copy = None
    /\ req' = [req EXCEPT ![r].copy = user]
    /\ unmoved' = unmoved \cup {r}
    /\ UNCHANGED <<store, legacy, user, sess, chosen, history>>

\* Mutant of Swappable: the record is matched by its id alone.
SwappableById(r) == req[r].copy # None

Swappable(r) == req[r].copy # None /\ r \in unmoved

UpdateSwap(r) ==
    /\ req[r].step \in Updating
    /\ Swappable(r)
    /\ Update(r, req[r].copy)

UpdateMissed(r) ==
    /\ req[r].copy # None
    /\ ~Swappable(r)
    /\ req' = [req EXCEPT ![r].copy = None]
    /\ UNCHANGED <<store, legacy, user, sess, unmoved, chosen, history>>

\* createSession, at the end of a login.
OpenSession(r, s) ==
    /\ req[r].step = "open"
    /\ sess[s].status = "absent"
    /\ sess' = [sess EXCEPT ![s] = [status |-> "active", password |-> req[r].tried,
                                    late |-> req[r].late]]
    /\ req' = [req EXCEPT ![r] = Idle]
    /\ UNCHANGED <<store, legacy, user, unmoved, chosen, history>>

Revoked(s) == IF sess[s].status = "active" THEN [sess[s] EXCEPT !.status = "revoked"]
              ELSE sess[s]

LoggingIn(r) == req[r].step \in {"login", "clear", "upgrade", "open"}

\* revokeAllSessionsForUser, at the end of a change of the password.
RevokeSessions(r) ==
    /\ req[r].step = "revoke"
    /\ sess' = [s \in Sessions |-> Revoked(s)]
    /\ finished' = Acknowledged(r)
    /\ req' = [q \in Requests |->
                 IF q = r THEN Proceeded(r)
                 ELSE IF LoggingIn(q) THEN [req[q] EXCEPT !.late = TRUE] ELSE req[q]]
    /\ UNCHANGED <<store, legacy, user, unmoved, chosen, missed, written>>

LogoutAll ==
    /\ \E s \in Sessions : sess[s].status = "active"
    /\ sess' = [s \in Sessions |-> Revoked(s)]
    /\ UNCHANGED <<store, legacy, user, req, unmoved, chosen, history>>

Logout(s) ==
    /\ sess[s].status = "active"
    /\ sess' = [sess EXCEPT ![s] = Revoked(s)]
    /\ UNCHANGED <<store, legacy, user, req, unmoved, chosen, history>>

\* A request ends with an error: the store or the process failed, or updateUser
\* gave up after eight attempts.
RequestFail(r) ==
    /\ req[r].step # "idle"
    /\ req' = [req EXCEPT ![r] = Idle]
    /\ unmoved' = unmoved \ {r}
    /\ UNCHANGED <<store, legacy, user, sess, chosen, history>>

LockEnds ==
    /\ user.lock = "held"
    /\ user' = [user EXCEPT !.lock = "over"]
    /\ req' = [r \in Requests |->
                 IF req[r].copy # None /\ req[r].copy.lock = "held"
                 THEN [req[r] EXCEPT !.copy.lock = "over"] ELSE req[r]]
    /\ UNCHANGED <<store, legacy, sess, unmoved, chosen, history>>

Next ==
    \/ \E r \in Requests, p \in 0..chosen : LoginFind(r, p) \/ ChangeFind(r, p)
    \/ \E r \in Requests :
        \/ Verified(r) \/ WrongPassword(r)
        \/ UpdateJson(r) \/ UpdateRead(r) \/ UpdateSwap(r) \/ UpdateMissed(r)
        \/ RevokeSessions(r) \/ RequestFail(r)
    \/ \E r \in Requests, s \in Sessions : OpenSession(r, s)
    \/ \E s \in Sessions : Logout(s)
    \/ LogoutAll
    \/ LockEnds

Spec == Init /\ [][Next]_vars

-----------------------------------------------------------------------------
(* Properties.                                                             *)

\* Failed logins that run at the same time are all counted: updateUser loses
\* none, so that the account is locked by its MaxFailures-th wrong password in
\* a row whichever server counted them.
LockoutCountsEveryFailure ==
    /\ user.failed = missed
    /\ missed = MaxFailures <=> user.lock # "none"

\* No login, failed or not, writes an older password back over a change of it,
\* as long as the hash needs no upgrade: the mutators of updateUser are applied
\* to the record as it then is.
PasswordStands == ~legacy => user.password = written

\* Once a change of the password was acknowledged, a session opened with an
\* older password can only be one whose login was already under way when the
\* change revoked the sessions: the new password is written before they are.
OnlyLateLoginsSurvive ==
    ~legacy /\ written \in finished =>
        \A s \in Sessions :
            sess[s].status = "active" => sess[s].password = written \/ sess[s].late

\* What the comment at auth-service.js:350 says of a change: it invalidates
\* every session, and the caller signs in again with the new credential.
ChangeEndsEverySession ==
    written \in finished =>
        \A s \in Sessions : sess[s].status = "active" => sess[s].password = written

\* Once a change was acknowledged the account has the password it set, as the
\* test "changing password revokes every existing session" expects: the login
\* with the old password fails, the one with the new password succeeds.
NewPasswordStands == written \in finished => user.password = written
=============================================================================
