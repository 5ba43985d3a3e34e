--------------------------- MODULE AccountsProofs ---------------------------
(***************************************************************************)
(* Proofs about Accounts, for any number of requests, sessions, changes of *)
(* the password and failures that lock the account, and about Signup, for  *)
(* any number of registrations and requests.                               *)
(***************************************************************************)
EXTENDS Accounts, Signup, TLAPS

-----------------------------------------------------------------------------
(* Type correctness.                                                       *)

Step == {"idle", "login", "change", "open", "revoke"} \cup Updating

\* A request that goes on is a request.
LEMMA ProceededType ==
  ASSUME NEW r \in Requests, TypeOK
  PROVE  Proceeded(r) \in Request
<1>1. Idle \in Request
  BY AccountsAssumption DEF Idle, Request, Passwords
<1>2. After(req[r].step, req[r].found) \in Step
  BY DEF After, Step, Updating
<1> QED
  BY <1>1, <1>2 DEF Proceeded, TypeOK, Request, Step

\* A mutator makes a user record of a user record.
LEMMA UpdatedType ==
  ASSUME NEW r \in Requests, TypeOK, req[r].step \in Updating, NEW u \in User
  PROVE  Updated(r, u) \in User
<1>1. \A n \in 0..MaxFailures : [u EXCEPT !.failed = n] \in User
  BY DEF User
<1>2. \A v \in User : /\ [v EXCEPT !.lock = "held"] \in User
                      /\ [v EXCEPT !.lock = "none"] \in User
  BY DEF User
<1>3. \A p \in Passwords : [u EXCEPT !.password = p] \in User
  BY DEF User
<1>4. \A v \in User : [v EXCEPT !.strong = TRUE] \in User
  BY DEF User
<1>5. req[r].tried \in Passwords /\ req[r].next \in Passwords
  BY DEF TypeOK, Request
<1>6. /\ 0 \in 0..MaxFailures /\ MaxFailures \in 0..MaxFailures
      /\ u.failed + 1 < MaxFailures => u.failed + 1 \in 0..MaxFailures
  BY AccountsAssumption DEF User
<1>7. ~(u.failed + 1 >= MaxFailures) => u.failed + 1 < MaxFailures
  BY AccountsAssumption DEF User
<1>8. Failed(u) \in User
  <2>1. CASE u.failed + 1 >= MaxFailures
    BY <1>1, <1>2, <1>6, <2>1 DEF Failed
  <2>2. CASE ~(u.failed + 1 >= MaxFailures)
    BY <1>1, <1>6, <1>7, <2>2 DEF Failed
  <2> QED
    BY <2>1, <2>2
<1>9. CASE req[r].step = "fail"
  BY <1>8, <1>9 DEF Updated
<1>10. CASE req[r].step = "clear"
  BY <1>1, <1>2, <1>6, <1>10 DEF Updated
<1>11. CASE req[r].step = "upgrade"
  BY <1>3, <1>4, <1>5, <1>11 DEF Updated
<1>12. CASE req[r].step = "write"
  BY <1>3, <1>4, <1>5, <1>12 DEF Updated
<1> QED
  BY <1>9, <1>10, <1>11, <1>12 DEF Updating

LEMMA UpdateType ==
  ASSUME NEW r \in Requests, TypeOK, req[r].step \in Updating, NEW u \in User,
         Update(r, u)
  PROVE  TypeOK'
<1>1. Updated(r, u) \in User
  BY UpdatedType
<1>2. Proceeded(r) \in Request
  BY ProceededType
<1>3. req[r].next \in Passwords
  BY DEF TypeOK, Request
<1>4. missed' \in 0..MaxFailures
  BY AccountsAssumption DEF Update, TypeOK
<1> QED
  BY <1>1, <1>2, <1>3, <1>4 DEF Update, TypeOK, Acknowledged

\* The record read for an update is a user record.
LEMMA CopyType ==
  ASSUME NEW r \in Requests, TypeOK, req[r].copy # None
  PROVE  req[r].copy \in User
  BY DEF TypeOK, Request

LEMMA TypeInit == Init => TypeOK
<1> SUFFICES ASSUME Init PROVE TypeOK
  OBVIOUS
<1>1. Idle \in Request /\ NoSession \in Session /\ 0 \in Passwords
  BY AccountsAssumption DEF Idle, Request, Passwords, NoSession, Session
<1>2. user \in User
  BY <1>1, AccountsAssumption DEF Init, User
<1> QED
  BY <1>1, <1>2, AccountsAssumption DEF Init, TypeOK

LEMMA ChosenPassword ==
  ASSUME TypeOK, NEW p \in 0..chosen
  PROVE  p \in Passwords
  BY AccountsAssumption DEF TypeOK, Passwords

LEMMA TypeStep == TypeOK /\ [Next]_vars => TypeOK'
<1> SUFFICES ASSUME TypeOK, [Next]_vars PROVE TypeOK'
  OBVIOUS
<1>0. UserHash \in Hash
  <2>1. user.password \in Passwords /\ user.strong \in BOOLEAN
    BY DEF TypeOK, User
  <2> QED
    BY <2>1, Zenon DEF UserHash, Hash
<1>1. Idle \in Request
  BY AccountsAssumption DEF Idle, Request, Passwords
<1>2. ASSUME NEW s \in Sessions PROVE Revoked(s) \in Session
  BY DEF Revoked, TypeOK, Session
<1>3. ASSUME NEW r \in Requests, NEW p \in 0..chosen, LoginFind(r, p)
      PROVE  TypeOK'
  <2>1. p \in Passwords
    BY ChosenPassword
  <2>2. [Idle EXCEPT !.step = "login", !.tried = p, !.found = UserHash] \in Request
    BY <1>0, <1>1, <2>1 DEF Request
  <2> QED
    BY <1>3, <2>2 DEF LoginFind, TypeOK, history
<1>4. ASSUME NEW r \in Requests, NEW p \in 0..chosen, ChangeFind(r, p)
      PROVE  TypeOK'
  <2>1. p \in Passwords /\ chosen + 1 \in Passwords
    BY <1>4, ChosenPassword, AccountsAssumption DEF ChangeFind, TypeOK, Passwords
  <2>2. [Idle EXCEPT !.step = "change", !.tried = p, !.next = chosen + 1,
                     !.found = UserHash] \in Request
    BY <1>0, <1>1, <2>1 DEF Request
  <2> QED
    BY <1>4, <2>1, <2>2 DEF ChangeFind, TypeOK, history
<1>5. ASSUME NEW r \in Requests, Verified(r) PROVE TypeOK'
  BY <1>5, ProceededType DEF Verified, TypeOK, history
<1>6. ASSUME NEW r \in Requests, WrongPassword(r) PROVE TypeOK'
  <2>1. [req[r] EXCEPT !.step = "fail"] \in Request
    BY DEF TypeOK, Request, Updating
  <2> QED
    BY <1>1, <1>6, <2>1 DEF WrongPassword, TypeOK, history
<1>7. ASSUME NEW r \in Requests, UpdateJson(r) PROVE TypeOK'
  BY <1>7, UpdateType DEF UpdateJson, TypeOK
<1>8. ASSUME NEW r \in Requests, UpdateRead(r) PROVE TypeOK'
  <2>1. [req[r] EXCEPT !.copy = user] \in Request
    BY DEF TypeOK, Request
  <2> QED
    BY <1>8, <2>1 DEF UpdateRead, TypeOK, history
<1>9. ASSUME NEW r \in Requests, UpdateMissed(r) PROVE TypeOK'
  <2>1. [req[r] EXCEPT !.copy = None] \in Request
    BY DEF TypeOK, Request
  <2> QED
    BY <1>9, <2>1 DEF UpdateMissed, TypeOK, history
<1>10. ASSUME NEW r \in Requests, NEW s \in Sessions, OpenSession(r, s)
       PROVE  TypeOK'
  <2>1. [status |-> "active", password |-> req[r].tried, late |-> req[r].late] \in Session
    BY DEF TypeOK, Request, Session
  <2> QED
    BY <1>1, <1>10, <2>1 DEF OpenSession, TypeOK, history
<1>11. ASSUME NEW r \in Requests, RevokeSessions(r) PROVE TypeOK'
  <2>1. Proceeded(r) \in Request /\ Acknowledged(r) \subseteq Passwords
    BY ProceededType DEF Acknowledged, TypeOK, Request
  <2>2. ASSUME NEW q \in Requests PROVE [req[q] EXCEPT !.late = TRUE] \in Request
    BY DEF TypeOK, Request
  <2> QED
    BY <1>2, <1>11, <2>1, <2>2 DEF RevokeSessions, TypeOK
<1>12. ASSUME LogoutAll PROVE TypeOK'
  BY <1>2, <1>12 DEF LogoutAll, TypeOK, history
<1>13. ASSUME NEW s \in Sessions, Logout(s) PROVE TypeOK'
  BY <1>2, <1>13 DEF Logout, TypeOK, history
<1>14. ASSUME NEW r \in Requests, RequestFail(r) PROVE TypeOK'
  BY <1>1, <1>14 DEF RequestFail, TypeOK, history
<1>15. ASSUME LockEnds PROVE TypeOK'
  <2>1. ASSUME NEW r \in Requests, req[r].copy # None
        PROVE  [req[r] EXCEPT !.copy.lock = "over"] \in Request
    <3>1. [req[r].copy EXCEPT !.lock = "over"] \in User
      BY <2>1, CopyType DEF User
    <3> QED
      BY <3>1 DEF TypeOK, Request
  <2>2. [user EXCEPT !.lock = "over"] \in User
    BY DEF TypeOK, User
  <2> QED
    BY <1>15, <2>1, <2>2 DEF LockEnds, TypeOK, history
<1>16. CASE UNCHANGED vars
  BY <1>16 DEF TypeOK, vars
<1>17. ASSUME NEW r \in Requests, UpdateSwap(r) PROVE TypeOK'
  BY <1>17, UpdateType, CopyType DEF UpdateSwap, Swappable
<1> QED
  BY <1>3, <1>4, <1>5, <1>6, <1>7, <1>8, <1>9, <1>10, <1>11, <1>12, <1>13,
     <1>14, <1>15, <1>16, <1>17 DEF Next

\* Every reachable state is well typed.
THEOREM TypeCorrect == Spec => []TypeOK
  BY TypeInit, TypeStep, PTL DEF Spec

-----------------------------------------------------------------------------
(* Lockout.  What makes counting exact on MongoDB is that a copy whose     *)
(* revision did not move still equals the record.                          *)

FreshCopies == \A r \in unmoved : req[r].copy \in {None, user}

Counted == FreshCopies /\ LockoutCountsEveryFailure

\* An update from a record with the present counts keeps them exact.
LEMMA UpdateCounts ==
  ASSUME NEW r \in Requests, TypeOK, LockoutCountsEveryFailure,
         req[r].step \in Updating, Update(r, user)
  PROVE  Counted'
<1>1. FreshCopies'
  BY DEF Update, FreshCopies
<1>2. /\ user \in User /\ user' = Updated(r, user)
      /\ user.failed = missed /\ (missed = MaxFailures <=> user.lock # "none")
      /\ missed \in 0..MaxFailures
  BY DEF Update, TypeOK, LockoutCountsEveryFailure
<1>3. CASE req[r].step = "fail"
  <2>1. user' = Failed(user)
    BY <1>2, <1>3 DEF Updated
  <2>2. missed' = IF missed < MaxFailures THEN missed + 1 ELSE missed
    BY <1>3 DEF Update
  <2>3. CASE user.failed + 1 >= MaxFailures
    <3>1. user'.failed = MaxFailures /\ user'.lock = "held"
      BY <1>2, <2>1, <2>3 DEF Failed, User
    <3>2. missed' = MaxFailures
      BY <1>2, <2>2, <2>3, AccountsAssumption
    <3> QED
      BY <1>1, <3>1, <3>2 DEF Counted, LockoutCountsEveryFailure
  <2>4. CASE ~(user.failed + 1 >= MaxFailures)
    <3>1. user'.failed = user.failed + 1 /\ user'.lock = user.lock
      BY <1>2, <2>1, <2>4 DEF Failed, User
    <3>2. missed' = missed + 1 /\ missed' # MaxFailures /\ missed # MaxFailures
      BY <1>2, <2>2, <2>4, AccountsAssumption
    <3> QED
      BY <1>1, <1>2, <3>1, <3>2 DEF Counted, LockoutCountsEveryFailure
  <2> QED
    BY <2>3, <2>4
<1>4. CASE req[r].step = "clear"
  <2>1. user'.failed = 0 /\ user'.lock = "none"
    BY <1>2, <1>4 DEF Updated, User
  <2>2. missed' = 0 /\ missed' # MaxFailures
    BY <1>4, AccountsAssumption DEF Update
  <2> QED
    BY <1>1, <2>1, <2>2 DEF Counted, LockoutCountsEveryFailure
<1>5. CASE req[r].step \in {"upgrade", "write"}
  <2>1. user'.failed = user.failed /\ user'.lock = user.lock
    BY <1>2, <1>5 DEF Updated, User
  <2>2. missed' = missed
    BY <1>5 DEF Update
  <2> QED
    BY <1>1, <1>2, <2>1, <2>2 DEF Counted, LockoutCountsEveryFailure
<1> QED
  BY <1>3, <1>4, <1>5 DEF Updating

\* A request that is replaced without a copy leaves the fresh copies fresh.
LEMMA OthersFresh ==
  ASSUME FreshCopies, TypeOK, NEW r \in Requests,
         \A q \in Requests \ {r} : req'[q] = req[q], req'[r].copy = None,
         UNCHANGED <<user, missed>>, unmoved' \subseteq unmoved,
         LockoutCountsEveryFailure
  PROVE  Counted'
  BY DEF FreshCopies, TypeOK, Counted, LockoutCountsEveryFailure

LEMMA CountedInit == Init => Counted
  BY AccountsAssumption DEF Init, Counted, FreshCopies, LockoutCountsEveryFailure

LEMMA CountedStep == TypeOK /\ Counted /\ [Next]_vars => Counted'
<1> SUFFICES ASSUME TypeOK, Counted, [Next]_vars PROVE Counted'
  OBVIOUS
<1> USE DEF Counted
<1>1. ASSUME NEW r \in Requests, NEW p \in 0..chosen,
             LoginFind(r, p) \/ ChangeFind(r, p)
      PROVE  Counted'
  <2>1. req'[r].copy = None
    BY <1>1 DEF LoginFind, ChangeFind, Idle, TypeOK
  <2>2. \A q \in Requests \ {r} : req'[q] = req[q]
    BY <1>1 DEF LoginFind, ChangeFind, TypeOK
  <2> QED
    BY <1>1, <2>1, <2>2, OthersFresh DEF LoginFind, ChangeFind, history
<1>2. ASSUME NEW r \in Requests, Verified(r) PROVE Counted'
  <2>1. Proceeded(r).copy = None
    BY DEF Proceeded, Idle, TypeOK, Request
  <2> QED
    BY <1>2, <2>1, OthersFresh DEF Verified, history, TypeOK
<1>3. ASSUME NEW r \in Requests, WrongPassword(r) PROVE Counted'
  <2>1. [req[r] EXCEPT !.step = "fail"].copy = req[r].copy
    BY DEF TypeOK, Request
  <2> QED
    BY <1>3, <2>1 DEF WrongPassword, history, FreshCopies, Idle, TypeOK,
                      LockoutCountsEveryFailure
<1>4. ASSUME NEW r \in Requests, UpdateJson(r) PROVE Counted'
  BY <1>4, UpdateCounts DEF UpdateJson
<1>5. ASSUME NEW r \in Requests, UpdateSwap(r) PROVE Counted'
  <2>1. req[r].copy = user
    BY <1>5 DEF UpdateSwap, Swappable, FreshCopies
  <2> QED
    BY <1>5, <2>1, UpdateCounts DEF UpdateSwap
<1>6. ASSUME NEW r \in Requests, UpdateRead(r) PROVE Counted'
  <2>1. [req[r] EXCEPT !.copy = user].copy = user
    BY DEF TypeOK, Request
  <2> QED
    BY <1>6, <2>1 DEF UpdateRead, history, FreshCopies, TypeOK,
                      LockoutCountsEveryFailure
<1>7. ASSUME NEW r \in Requests, UpdateMissed(r) PROVE Counted'
  <2>1. [req[r] EXCEPT !.copy = None].copy = None
    BY DEF TypeOK, Request
  <2> QED
    BY <1>7, <2>1, OthersFresh DEF UpdateMissed, history, TypeOK
<1>8. ASSUME NEW r \in Requests, NEW s \in Sessions, OpenSession(r, s)
      PROVE  Counted'
  BY <1>8, OthersFresh DEF OpenSession, Idle, history, TypeOK
<1>9. ASSUME NEW r \in Requests, RevokeSessions(r) PROVE Counted'
  <2>1. Proceeded(r).copy = None
    BY DEF Proceeded, Idle, TypeOK, Request
  <2>2. \A q \in Requests : [req[q] EXCEPT !.late = TRUE].copy = req[q].copy
    BY DEF TypeOK, Request
  <2>3. \A q \in Requests : req'[q].copy \in {None, req[q].copy}
    BY <1>9, <2>1, <2>2 DEF RevokeSessions
  <2> QED
    BY <1>9, <2>3 DEF RevokeSessions, FreshCopies, TypeOK, LockoutCountsEveryFailure
<1>10. ASSUME LogoutAll \/ \E s \in Sessions : Logout(s) PROVE Counted'
  BY <1>10 DEF LogoutAll, Logout, history, FreshCopies, LockoutCountsEveryFailure
<1>11. ASSUME NEW r \in Requests, RequestFail(r) PROVE Counted'
  BY <1>11, OthersFresh DEF RequestFail, Idle, history, TypeOK
<1>12. ASSUME LockEnds PROVE Counted'
  <2>1. user \in User /\ user.lock = "held" /\ user' = [user EXCEPT !.lock = "over"]
    BY <1>12 DEF LockEnds, TypeOK
  <2>2. user'.failed = user.failed /\ user'.lock = "over"
    BY <2>1 DEF User
  <2>3. LockoutCountsEveryFailure'
    BY <1>12, <2>1, <2>2 DEF LockEnds, LockoutCountsEveryFailure, history
  <2>4. ASSUME NEW r \in unmoved PROVE req'[r].copy \in {None, user'}
    <3>1. r \in Requests /\ req[r] \in Request /\ req[r].copy \in {None, user}
      BY DEF TypeOK, FreshCopies
    <3>2. CASE req[r].copy # None
      <4>1. req'[r] = [req[r] EXCEPT !.copy.lock = "over"]
        BY <1>12, <2>1, <3>1, <3>2 DEF LockEnds
      <4>2. req'[r].copy = [user EXCEPT !.lock = "over"]
        BY <3>1, <3>2, <4>1 DEF Request
      <4> QED
        BY <2>1, <4>2
    <3>3. CASE req[r].copy = None
      BY <1>12, <3>1, <3>3 DEF LockEnds
    <3> QED
      BY <3>2, <3>3
  <2> QED
    BY <1>12, <2>3, <2>4 DEF LockEnds, FreshCopies
<1>13. CASE UNCHANGED vars
  BY <1>13 DEF vars, history, FreshCopies, LockoutCountsEveryFailure
<1> QED
  BY <1>1, <1>2, <1>3, <1>4, <1>5, <1>6, <1>7, <1>8, <1>9, <1>10, <1>11,
     <1>12, <1>13 DEF Next

LEMMA CountedHolds == Spec => [](TypeOK /\ Counted)
<1>1. Init => TypeOK /\ Counted
  BY TypeInit, CountedInit
<1>2. TypeOK /\ Counted /\ [Next]_vars => (TypeOK /\ Counted)'
  BY TypeStep, CountedStep
<1> QED
  BY <1>1, <1>2, PTL DEF Spec

\* Failed logins are all counted, however updateUser's reads and writes of
\* different requests interleave.
THEOREM EveryFailureCounts == Spec => []LockoutCountsEveryFailure
<1>1. TypeOK /\ Counted => LockoutCountsEveryFailure
  BY DEF Counted
<1> QED
  BY <1>1, CountedHolds, PTL

-----------------------------------------------------------------------------
(* The password that a change wrote stands, as long as no hash is upgraded. *)

Plain(q) == /\ q.step # "upgrade"
            /\ q.step \in {"login", "clear"} => q.found.strong

NoUpgrade ==
    ~legacy => /\ user.strong /\ user.password = written
               /\ \A r \in Requests : Plain(req[r])

\* What becomes of a request that goes on, field by field.
LEMMA ProceededFields ==
  ASSUME NEW r \in Requests, TypeOK
  PROVE  /\ Proceeded(r).step = After(req[r].step, req[r].found)
         /\ Proceeded(r).step # "idle" =>
              /\ Proceeded(r).found = req[r].found
              /\ Proceeded(r).tried = req[r].tried
              /\ Proceeded(r).next = req[r].next
              /\ Proceeded(r).late = req[r].late
  BY DEF Proceeded, Idle, TypeOK, Request

\* An update is made of the present record on either store.
LEMMA UpdateOfUser ==
  ASSUME FreshCopies, NEW r \in Requests, UpdateJson(r) \/ UpdateSwap(r)
  PROVE  req[r].step \in Updating /\ Update(r, user)
<1>1. CASE UpdateJson(r)
  BY <1>1 DEF UpdateJson
<1>2. CASE UpdateSwap(r)
  <2>1. req[r].copy = user
    BY <1>2 DEF UpdateSwap, Swappable, FreshCopies
  <2> QED
    BY <1>2, <2>1 DEF UpdateSwap
<1> QED
  BY <1>1, <1>2

LEMMA NoUpgradeInit == Init => NoUpgrade
  BY DEF Init, NoUpgrade, Plain, Idle

\* A plain request that goes on is plain: the found hash is strong.
LEMMA ProceededPlain ==
  ASSUME NEW r \in Requests, TypeOK, Plain(req[r])
  PROVE  Plain(Proceeded(r))
<1>1. /\ Proceeded(r).step = After(req[r].step, req[r].found)
      /\ Proceeded(r).step # "idle" => Proceeded(r).found = req[r].found
  BY ProceededFields
<1> QED
  BY <1>1 DEF After, Plain

\* An account's hash is as old as it was created with, or stronger.
LEMMA LegacyStays == [Next]_vars => legacy' = legacy
<1>1. \A r \in Requests : \A u : Update(r, u) => legacy' = legacy
  BY DEF Update
<1>2. ASSUME NEW r \in Requests, UpdateJson(r) \/ UpdateSwap(r)
      PROVE  legacy' = legacy
  BY <1>1, <1>2 DEF UpdateJson, UpdateSwap
<1>3. ASSUME NEW r \in Requests, NEW p \in 0..chosen,
             LoginFind(r, p) \/ ChangeFind(r, p)
      PROVE  legacy' = legacy
  BY <1>3 DEF LoginFind, ChangeFind
<1> QED
  BY <1>2, <1>3 DEF Next, vars, Verified, WrongPassword, UpdateRead, UpdateMissed,
     RevokeSessions, RequestFail, OpenSession, Logout, LogoutAll, LockEnds

LEMMA NoUpgradeStep == TypeOK /\ FreshCopies /\ NoUpgrade /\ [Next]_vars => NoUpgrade'
<1> SUFFICES ASSUME TypeOK, FreshCopies, NoUpgrade, ~legacy, [Next]_vars
             PROVE  /\ user'.strong /\ user'.password = written'
                    /\ \A q \in Requests : Plain(req'[q])
  BY LegacyStays DEF NoUpgrade, Plain
<1>1. /\ user \in User /\ user.strong /\ user.password = written
      /\ \A q \in Requests : Plain(req[q])
  BY DEF NoUpgrade, TypeOK
<1>2. Plain(Idle)
  BY DEF Plain, Idle
<1>3. ASSUME NEW r \in Requests, NEW p \in 0..chosen,
             LoginFind(r, p) \/ ChangeFind(r, p)
      PROVE  user' = user /\ written' = written /\ \A q \in Requests : Plain(req'[q])
  <2>1. UserHash.strong
    BY <1>1 DEF UserHash
  <2>2. Plain(req'[r])
    <3>1. CASE LoginFind(r, p)
      <4>1. req'[r] = [Idle EXCEPT !.step = "login", !.tried = p, !.found = UserHash]
        BY <3>1 DEF LoginFind, TypeOK
      <4> QED
        BY <2>1, <4>1 DEF Idle, Plain
    <3>2. CASE ChangeFind(r, p)
      <4>1. req'[r].step = "change"
        BY <3>2 DEF ChangeFind, TypeOK, Idle
      <4> QED
        BY <4>1 DEF Plain
    <3> QED
      BY <1>3, <3>1, <3>2
  <2>3. \A q \in Requests \ {r} : req'[q] = req[q]
    BY <1>3 DEF LoginFind, ChangeFind, TypeOK
  <2> QED
    BY <1>1, <1>3, <2>2, <2>3 DEF LoginFind, ChangeFind, history
<1>4. ASSUME NEW r \in Requests, Verified(r)
      PROVE  user' = user /\ written' = written /\ \A q \in Requests : Plain(req'[q])
  BY <1>1, <1>4, ProceededPlain DEF Verified, history, TypeOK
<1>5. ASSUME NEW r \in Requests, WrongPassword(r)
      PROVE  user' = user /\ written' = written /\ \A q \in Requests : Plain(req'[q])
  <2>1. Plain([req[r] EXCEPT !.step = "fail"])
    BY DEF Plain, TypeOK, Request
  <2> QED
    BY <1>1, <1>2, <1>5, <2>1 DEF WrongPassword, history, TypeOK
<1>6. ASSUME NEW r \in Requests, UpdateJson(r) \/ UpdateSwap(r)
      PROVE  /\ user'.strong /\ user'.password = written'
             /\ \A q \in Requests : Plain(req'[q])
  <2>1. req[r].step \in Updating /\ Update(r, user)
    BY <1>6, UpdateOfUser
  <2>2. user'.strong /\ user'.password = written'
    <3>1. CASE req[r].step = "fail"
      <4>1. user' = Failed(user) /\ written' = written
        BY <2>1, <3>1 DEF Update, Updated
      <4>2. Failed(user).password = user.password /\ Failed(user).strong = user.strong
        BY <1>1 DEF Failed, User
      <4> QED
        BY <1>1, <4>1, <4>2
    <3>2. CASE req[r].step = "clear"
      <4>1. user' = [user EXCEPT !.failed = 0, !.lock = "none"] /\ written' = written
        BY <2>1, <3>2 DEF Update, Updated
      <4> QED
        BY <1>1, <4>1 DEF User
    <3>3. CASE req[r].step = "write"
      <4>1. /\ user' = [user EXCEPT !.password = req[r].next, !.strong = TRUE]
            /\ written' = req[r].next
        BY <2>1, <3>3 DEF Update, Updated
      <4> QED
        BY <1>1, <4>1 DEF User
    <3> QED
      BY <1>1, <2>1, <3>1, <3>2, <3>3 DEF Updating, Plain
  <2> QED
    BY <1>1, <2>1, <2>2, ProceededPlain DEF Update, TypeOK
<1>7. ASSUME NEW r \in Requests, UpdateRead(r) \/ UpdateMissed(r)
      PROVE  user' = user /\ written' = written /\ \A q \in Requests : Plain(req'[q])
  <2>1. ASSUME NEW c PROVE Plain([req[r] EXCEPT !.copy = c])
    BY <1>1 DEF Plain, TypeOK, Request
  <2> QED
    BY <1>1, <1>7, <2>1 DEF UpdateRead, UpdateMissed, history, TypeOK
<1>8. ASSUME NEW r \in Requests,
             RequestFail(r) \/ \E s \in Sessions : OpenSession(r, s)
      PROVE  user' = user /\ written' = written /\ \A q \in Requests : Plain(req'[q])
  BY <1>1, <1>2, <1>8 DEF RequestFail, OpenSession, history, TypeOK
<1>9. ASSUME NEW r \in Requests, RevokeSessions(r)
      PROVE  user' = user /\ written' = written /\ \A q \in Requests : Plain(req'[q])
  <2>1. ASSUME NEW q \in Requests PROVE Plain([req[q] EXCEPT !.late = TRUE])
    BY <1>1 DEF Plain, TypeOK, Request
  <2> QED
    BY <1>1, <1>9, <2>1, ProceededPlain DEF RevokeSessions
<1>10. ASSUME LogoutAll \/ (\E s \in Sessions : Logout(s)) \/ UNCHANGED vars
       PROVE  user' = user /\ written' = written /\ \A q \in Requests : Plain(req'[q])
  BY <1>1, <1>10 DEF LogoutAll, Logout, vars, history
<1>11. ASSUME LockEnds
       PROVE  /\ user'.strong /\ user'.password = written'
              /\ \A q \in Requests : Plain(req'[q])
  <2>1. ASSUME NEW q \in Requests PROVE Plain([req[q] EXCEPT !.copy.lock = "over"])
    BY <1>1 DEF Plain, TypeOK, Request
  <2>2. user'.strong /\ user'.password = written'
    BY <1>1, <1>11 DEF LockEnds, history, User
  <2> QED
    BY <1>1, <1>11, <2>1, <2>2 DEF LockEnds
<1> QED
  BY <1>1, <1>3, <1>4, <1>5, <1>6, <1>7, <1>8, <1>9, <1>10, <1>11 DEF Next

\* No login writes an older password back over a change of it, unless it
\* upgrades a hash, in any order of the requests' reads and writes.
THEOREM ChangedPasswordStands == Spec => []PasswordStands
<1>1. Init => NoUpgrade
  BY NoUpgradeInit
<1>2. TypeOK /\ Counted /\ NoUpgrade /\ [Next]_vars => NoUpgrade'
  BY NoUpgradeStep DEF Counted
<1>3. NoUpgrade => PasswordStands
  BY DEF NoUpgrade, PasswordStands
<1> QED
  BY <1>1, <1>2, <1>3, CountedHolds, PTL DEF Spec

-----------------------------------------------------------------------------
(* What a change of the password leaves behind.  Each change has a password *)
(* of its own that is not finished until its sessions are revoked, and a    *)
(* login that began before that is late.                                    *)

Changing == {"change", "write", "revoke"}

Ordered ==
    /\ finished \subseteq 0..chosen
    /\ \A r \in Requests :
        /\ req[r].step \in Changing => req[r].next \in 0..chosen /\ req[r].next \notin finished
        /\ req[r].step \in {"login", "fail"} => req[r].next = 0
    /\ \A r, q \in Requests :
        r # q /\ req[r].step \in Changing /\ req[q].step \in Changing
            => req[r].next # req[q].next

\* A request that can still open a session opens one with the password w, or is
\* late.
Current(q, w) ==
    \/ q.late
    \/ /\ q.step = "login" => q.found.password = w
       /\ q.step \in {"clear", "open"} => q.tried = w

Survivors ==
    ~legacy /\ written \in finished =>
        /\ \A s \in Sessions :
            sess[s].status = "active" => sess[s].password = written \/ sess[s].late
        /\ \A r \in Requests : Current(req[r], written)

\* Requests that are idle, or go on without a new number, stay in order.
LEMMA StaysOrdered ==
  ASSUME Ordered, chosen' = chosen, finished' = finished,
         \A q \in Requests :
             /\ req'[q].step \in Changing =>
                  req[q].step \in Changing /\ req'[q].next = req[q].next
             /\ req'[q].step \in {"login", "fail"} =>
                  req[q].step \in {"login", "fail"} /\ req'[q].next = req[q].next
  PROVE  Ordered'
  BY DEF Ordered

\* A request that goes on was changing the password if it still is.
LEMMA ProceededOrdered ==
  ASSUME NEW r \in Requests, TypeOK
  PROVE  /\ Proceeded(r).step \in Changing =>
              req[r].step \in Changing /\ Proceeded(r).next = req[r].next
         /\ Proceeded(r).step \notin {"login", "fail"}
<1>1. /\ Proceeded(r).step = After(req[r].step, req[r].found)
      /\ Proceeded(r).step # "idle" => Proceeded(r).next = req[r].next
  BY ProceededFields
<1> QED
  BY <1>1 DEF After, Changing

\* Only the end of the revocation acknowledges a change.
LEMMA UpdateAcknowledges ==
  ASSUME NEW r \in Requests, TypeOK, Ordered, req[r].step \in Updating
  PROVE  Acknowledged(r) = finished
<1>1. CASE req[r].step = "fail"
  BY <1>1 DEF Acknowledged, Ordered
<1>2. CASE req[r].step \in {"clear", "upgrade", "write"}
  <2>1. Proceeded(r).step = After(req[r].step, req[r].found)
    BY ProceededFields
  <2>2. Proceeded(r).step # "idle"
    BY <1>2, <2>1 DEF After
  <2>3. Proceeded(r) # Idle
    BY <2>2 DEF Idle
  <2> QED
    BY <2>3 DEF Acknowledged
<1> QED
  BY <1>1, <1>2 DEF Updating

LEMMA OrderedInit == Init => Ordered /\ Survivors
<1> SUFFICES ASSUME Init PROVE Ordered /\ Survivors
  OBVIOUS
<1>1. \A r \in Requests : req[r].step = "idle"
  BY DEF Init, Idle
<1>2. \A s \in Sessions : sess[s].status = "absent"
  BY DEF Init, NoSession
<1>3. Ordered
  BY <1>1 DEF Init, Ordered, Changing
<1>4. Survivors
  BY <1>1, <1>2 DEF Survivors, Current
<1> QED
  BY <1>3, <1>4

LEMMA OrderedStep == TypeOK /\ FreshCopies /\ Ordered /\ [Next]_vars => Ordered'
<1> SUFFICES ASSUME TypeOK, FreshCopies, Ordered, [Next]_vars PROVE Ordered'
  OBVIOUS
<1>1. ASSUME NEW r \in Requests, NEW p \in 0..chosen, LoginFind(r, p)
      PROVE  Ordered'
  <2>1. req'[r] = [Idle EXCEPT !.step = "login", !.tried = p, !.found = UserHash]
    BY <1>1 DEF LoginFind, TypeOK
  <2>2. req'[r].step = "login" /\ req'[r].next = 0
    BY <2>1 DEF Idle
  <2>3. \A q \in Requests \ {r} : req'[q] = req[q]
    BY <1>1 DEF LoginFind, TypeOK
  <2>4. chosen' = chosen /\ finished' = finished
    BY <1>1 DEF LoginFind, history
  <2> QED
    BY <2>2, <2>3, <2>4 DEF Ordered, Changing
<1>2. ASSUME NEW r \in Requests, NEW p \in 0..chosen, ChangeFind(r, p)
      PROVE  Ordered'
  <2>1. req'[r] = [Idle EXCEPT !.step = "change", !.tried = p, !.next = chosen + 1,
                              !.found = UserHash]
    BY <1>2 DEF ChangeFind, TypeOK
  <2>2. req'[r].step = "change" /\ req'[r].next = chosen + 1
    BY <2>1 DEF Idle
  <2>3. \A q \in Requests \ {r} : req'[q] = req[q]
    BY <1>2 DEF ChangeFind, TypeOK
  <2>4. chosen' = chosen + 1 /\ finished' = finished /\ chosen \in Nat
    BY <1>2 DEF ChangeFind, history, TypeOK, Passwords
  <2>5. \A n \in 0..chosen : n \in 0..chosen' /\ n # chosen + 1
    BY <2>4
  <2>6. chosen + 1 \notin finished /\ finished' \subseteq 0..chosen'
    BY <2>4, <2>5 DEF Ordered
  <2>7. chosen + 1 \in 0..chosen'
    BY <2>4
  <2>8. ASSUME NEW q \in Requests
        PROVE  /\ req'[q].step \in Changing =>
                    req'[q].next \in 0..chosen' /\ req'[q].next \notin finished'
               /\ req'[q].step \in {"login", "fail"} => req'[q].next = 0
    BY <2>2, <2>3, <2>4, <2>5, <2>6, <2>7 DEF Ordered, Changing
  <2>9. ASSUME NEW q \in Requests, q # r, req[q].step \in Changing
        PROVE  req[q].next # chosen + 1
    BY <2>5, <2>9 DEF Ordered
  <2> QED
    BY <2>2, <2>3, <2>6, <2>8, <2>9 DEF Ordered
<1>3. ASSUME NEW r \in Requests, Verified(r) PROVE Ordered'
  <2>1. \A q \in Requests : req'[q] = IF q = r THEN Proceeded(r) ELSE req[q]
    BY <1>3 DEF Verified, TypeOK
  <2> QED
    BY <1>3, <2>1, ProceededOrdered, StaysOrdered DEF Verified, history
<1>4. ASSUME NEW r \in Requests, WrongPassword(r) PROVE Ordered'
  <2>1. /\ [req[r] EXCEPT !.step = "fail"].step = "fail"
        /\ [req[r] EXCEPT !.step = "fail"].next = req[r].next
    BY DEF TypeOK, Request
  <2>2. \A q \in Requests :
           req'[q] = IF q # r THEN req[q]
                     ELSE IF req[r].step = "login" THEN [req[r] EXCEPT !.step = "fail"]
                     ELSE Idle
    BY <1>4 DEF WrongPassword, TypeOK
  <2>3. Idle.step = "idle"
    BY DEF Idle
  <2> QED
    BY <1>4, <2>1, <2>2, <2>3, StaysOrdered DEF WrongPassword, history, Changing
<1>5. ASSUME NEW r \in Requests, UpdateJson(r) \/ UpdateSwap(r) PROVE Ordered'
  <2>1. req[r].step \in Updating /\ Update(r, user)
    BY <1>5, UpdateOfUser
  <2>2. \A q \in Requests : req'[q] = IF q = r THEN Proceeded(r) ELSE req[q]
    BY <2>1 DEF Update, TypeOK
  <2>3. finished' = finished /\ chosen' = chosen
    BY <2>1, UpdateAcknowledges DEF Update
  <2> QED
    BY <2>2, <2>3, ProceededOrdered, StaysOrdered
<1>6. ASSUME NEW r \in Requests, UpdateRead(r) \/ UpdateMissed(r) PROVE Ordered'
  <2>1. ASSUME NEW c
        PROVE  /\ [req[r] EXCEPT !.copy = c].step = req[r].step
               /\ [req[r] EXCEPT !.copy = c].next = req[r].next
    BY DEF TypeOK, Request
  <2>2. PICK c : req' = [req EXCEPT ![r] = [req[r] EXCEPT !.copy = c]]
    BY <1>6 DEF UpdateRead, UpdateMissed
  <2>3. \A q \in Requests : req'[q].step = req[q].step /\ req'[q].next = req[q].next
    BY <2>1, <2>2 DEF TypeOK
  <2> QED
    BY <1>6, <2>3, StaysOrdered DEF UpdateRead, UpdateMissed, history
<1>7. ASSUME NEW r \in Requests,
             RequestFail(r) \/ \E s \in Sessions : OpenSession(r, s)
      PROVE  Ordered'
  <2>1. \A q \in Requests : req'[q] = IF q = r THEN Idle ELSE req[q]
    BY <1>7 DEF RequestFail, OpenSession, TypeOK
  <2>2. Idle.step = "idle"
    BY DEF Idle
  <2> QED
    BY <1>7, <2>1, <2>2, StaysOrdered DEF RequestFail, OpenSession, history, Changing
<1>8. ASSUME NEW r \in Requests, RevokeSessions(r) PROVE Ordered'
  <2>1. Proceeded(r).step = "idle"
    BY <1>8, ProceededFields DEF RevokeSessions, After
  <2>2. \A q \in Requests : /\ [req[q] EXCEPT !.late = TRUE].step = req[q].step
                            /\ [req[q] EXCEPT !.late = TRUE].next = req[q].next
    BY DEF TypeOK, Request
  <2>3. /\ req'[r].step = "idle"
        /\ \A q \in Requests \ {r} :
              req'[q].step = req[q].step /\ req'[q].next = req[q].next
    BY <1>8, <2>1, <2>2 DEF RevokeSessions
  <2>4. chosen' = chosen /\ finished' \subseteq finished \cup {req[r].next}
    BY <1>8 DEF RevokeSessions, Acknowledged
  <2>5. req[r].step \in Changing
    BY <1>8 DEF RevokeSessions, Changing
  <2> QED
    BY <2>3, <2>4, <2>5 DEF Ordered, Changing
<1>9. ASSUME LogoutAll \/ (\E s \in Sessions : Logout(s)) \/ UNCHANGED vars
      PROVE  Ordered'
  BY <1>9 DEF LogoutAll, Logout, vars, history, Ordered
<1>10. ASSUME LockEnds PROVE Ordered'
  <2>1. \A q \in Requests :
           /\ [req[q] EXCEPT !.copy.lock = "over"].step = req[q].step
           /\ [req[q] EXCEPT !.copy.lock = "over"].next = req[q].next
    BY DEF TypeOK, Request
  <2>2. \A q \in Requests : req'[q].step = req[q].step /\ req'[q].next = req[q].next
    BY <1>10, <2>1 DEF LockEnds
  <2> QED
    BY <1>10, <2>2, StaysOrdered DEF LockEnds, history
<1> QED
  BY <1>1, <1>2, <1>3, <1>4, <1>5, <1>6, <1>7, <1>8, <1>9, <1>10 DEF Next

\* Steps that open no session and end no change: what remains is to show that
\* each request is as current as it was.
LEMMA StaysCurrent ==
  ASSUME Survivors, legacy' = legacy, written' = written, finished' = finished,
         \A s \in Sessions : sess'[s].status = "active" => sess'[s] = sess[s],
         ~legacy => \A q \in Requests :
                      Current(req[q], written) => Current(req'[q], written)
  PROVE  Survivors'
  BY DEF Survivors

\* A request that goes on after its password was right is as current as it was.
LEMMA ProceededCurrent ==
  ASSUME NEW r \in Requests, TypeOK, Plain(req[r]), NEW w,
         req[r].step = "login" => req[r].tried = req[r].found.password,
         Current(req[r], w)
  PROVE  Current(Proceeded(r), w)
<1>1. /\ Proceeded(r).step = After(req[r].step, req[r].found)
      /\ Proceeded(r).step # "idle" => /\ Proceeded(r).tried = req[r].tried
                                       /\ Proceeded(r).late = req[r].late
  BY ProceededFields
<1>2. Proceeded(r).step # "login"
  BY <1>1 DEF After
<1>3. CASE req[r].step \in {"login", "clear"}
  BY <1>1, <1>2, <1>3 DEF Current, After
<1>4. CASE req[r].step \notin {"login", "clear"}
  <2>1. Proceeded(r).step \notin {"login", "clear", "open"}
    BY <1>1, <1>4 DEF After, Plain
  <2> QED
    BY <2>1 DEF Current
<1> QED
  BY <1>3, <1>4

LEMMA SurvivorsStep ==
  TypeOK /\ FreshCopies /\ NoUpgrade /\ Ordered /\ Survivors /\ [Next]_vars => Survivors'
<1> SUFFICES ASSUME TypeOK, FreshCopies, NoUpgrade, Ordered, Survivors, [Next]_vars
             PROVE  Survivors'
  OBVIOUS
<1>0. legacy' = legacy
  BY LegacyStays
<1>1. \A w : Current(Idle, w)
  BY DEF Current, Idle
<1>2. ~legacy => /\ user.password = written
                 /\ \A q \in Requests : Plain(req[q])
  BY DEF NoUpgrade
<1>3. ASSUME NEW r \in Requests, NEW p \in 0..chosen, LoginFind(r, p)
      PROVE  Survivors'
  <2>1. req'[r] = [Idle EXCEPT !.step = "login", !.tried = p, !.found = UserHash]
    BY <1>3 DEF LoginFind, TypeOK
  <2>2. req'[r].step = "login" /\ req'[r].found = UserHash
    BY <2>1 DEF Idle
  <2>3. ~legacy => Current(req'[r], written)
    BY <1>2, <2>2 DEF Current, UserHash
  <2>4. \A q \in Requests \ {r} : req'[q] = req[q]
    BY <1>3 DEF LoginFind, TypeOK
  <2> QED
    BY <1>0, <1>3, <2>3, <2>4, StaysCurrent DEF LoginFind, history
<1>4. ASSUME NEW r \in Requests, NEW p \in 0..chosen, ChangeFind(r, p)
      PROVE  Survivors'
  <2>1. req'[r].step = "change"
    BY <1>4 DEF ChangeFind, TypeOK, Idle
  <2>2. Current(req'[r], written)
    BY <2>1 DEF Current
  <2>3. \A q \in Requests \ {r} : req'[q] = req[q]
    BY <1>4 DEF ChangeFind, TypeOK
  <2> QED
    BY <1>0, <1>4, <2>2, <2>3, StaysCurrent DEF ChangeFind, history
<1>5. ASSUME NEW r \in Requests, Verified(r) PROVE Survivors'
  <2>1. \A q \in Requests : req'[q] = IF q = r THEN Proceeded(r) ELSE req[q]
    BY <1>5 DEF Verified, TypeOK
  <2>2. ~legacy /\ Current(req[r], written) => Current(Proceeded(r), written)
    BY <1>2, <1>5, ProceededCurrent DEF Verified
  <2> QED
    BY <1>0, <1>5, <2>1, <2>2, StaysCurrent DEF Verified, history
<1>6. ASSUME NEW r \in Requests, WrongPassword(r) PROVE Survivors'
  <2>1. Current([req[r] EXCEPT !.step = "fail"], written)
    <3>1. [req[r] EXCEPT !.step = "fail"].step = "fail"
      BY DEF TypeOK, Request
    <3> QED
      BY <3>1 DEF Current
  <2>2. Current(req'[r], written)
    BY <1>1, <1>6, <2>1 DEF WrongPassword, TypeOK
  <2>3. \A q \in Requests \ {r} : req'[q] = req[q]
    BY <1>6 DEF WrongPassword, TypeOK
  <2> QED
    BY <1>0, <1>6, <2>2, <2>3, StaysCurrent DEF WrongPassword, history
<1>7. ASSUME NEW r \in Requests, UpdateJson(r) \/ UpdateSwap(r) PROVE Survivors'
  <2>1. req[r].step \in Updating /\ Update(r, user)
    BY <1>7, UpdateOfUser
  <2>2. \A q \in Requests : req'[q] = IF q = r THEN Proceeded(r) ELSE req[q]
    BY <2>1 DEF Update, TypeOK
  <2>3. finished' = finished /\ sess' = sess
    BY <2>1, UpdateAcknowledges DEF Update
  <2>4. CASE req[r].step = "write"
    <3>1. written' \notin finished'
      BY <2>1, <2>3, <2>4 DEF Update, Ordered, Changing
    <3> QED
      BY <3>1 DEF Survivors
  <2>5. CASE req[r].step # "write"
    <3>1. written' = written
      BY <2>1, <2>5 DEF Update
    <3>2. ~legacy /\ Current(req[r], written) => Current(Proceeded(r), written)
      BY <1>2, <2>1, ProceededCurrent DEF Updating
    <3> QED
      BY <1>0, <2>2, <2>3, <3>1, <3>2, StaysCurrent
  <2> QED
    BY <2>4, <2>5
<1>8. ASSUME NEW r \in Requests, UpdateRead(r) \/ UpdateMissed(r) PROVE Survivors'
  <2>1. ASSUME NEW c, Current(req[r], written)
        PROVE  Current([req[r] EXCEPT !.copy = c], written)
    BY <2>1 DEF Current, TypeOK, Request
  <2>2. PICK c : req' = [req EXCEPT ![r] = [req[r] EXCEPT !.copy = c]]
    BY <1>8 DEF UpdateRead, UpdateMissed
  <2>3. \A q \in Requests : Current(req[q], written) => Current(req'[q], written)
    BY <2>1, <2>2 DEF TypeOK
  <2> QED
    BY <1>0, <1>8, <2>3, StaysCurrent DEF UpdateRead, UpdateMissed, history
<1>9. ASSUME NEW r \in Requests, RequestFail(r) PROVE Survivors'
  <2>1. \A q \in Requests : req'[q] = IF q = r THEN Idle ELSE req[q]
    BY <1>9 DEF RequestFail, TypeOK
  <2> QED
    BY <1>0, <1>1, <1>9, <2>1, StaysCurrent DEF RequestFail, history
<1>10. ASSUME NEW r \in Requests, NEW s \in Sessions, OpenSession(r, s)
       PROVE  Survivors'
  <2>1. \A q \in Requests : req'[q] = IF q = r THEN Idle ELSE req[q]
    BY <1>10 DEF OpenSession, TypeOK
  <2>2. /\ sess'[s].password = req[r].tried
        /\ sess'[s].late = req[r].late
        /\ \A t \in Sessions \ {s} : sess'[t] = sess[t]
        /\ req[r].step = "open"
    BY <1>10 DEF OpenSession, TypeOK
  <2>3. legacy' = legacy /\ written' = written /\ finished' = finished
    BY <1>10 DEF OpenSession, history
  <2>4. Current(req[r], written) => sess'[s].password = written \/ sess'[s].late
    BY <2>2 DEF Current
  <2> QED
    BY <1>1, <2>1, <2>2, <2>3, <2>4 DEF Survivors
<1>11. ASSUME NEW r \in Requests, RevokeSessions(r) PROVE Survivors'
  <2>1. \A s \in Sessions : sess'[s].status # "active"
    <3>1. ASSUME NEW s \in Sessions PROVE Revoked(s).status # "active"
      BY DEF Revoked, TypeOK, Session
    <3> QED
      BY <1>11, <3>1 DEF RevokeSessions
  <2>2. ASSUME NEW q \in Requests PROVE Current(req'[q], written')
    <3>1. CASE q = r
      <4>1. Proceeded(r).step = "idle"
        BY <1>11, ProceededFields DEF RevokeSessions, After
      <4> QED
        BY <1>11, <3>1, <4>1 DEF RevokeSessions, Current
    <3>2. CASE q # r /\ LoggingIn(q)
      <4>1. req'[q] = [req[q] EXCEPT !.late = TRUE]
        BY <1>11, <3>2 DEF RevokeSessions
      <4>2. req'[q].late = TRUE
        BY <4>1 DEF TypeOK, Request
      <4> QED
        BY <4>2 DEF Current
    <3>3. CASE q # r /\ ~LoggingIn(q)
      <4>1. req'[q] = req[q]
        BY <1>11, <3>3 DEF RevokeSessions
      <4> QED
        BY <3>3, <4>1 DEF LoggingIn, Current
    <3> QED
      BY <3>1, <3>2, <3>3
  <2> QED
    BY <2>1, <2>2 DEF Survivors
<1>12. ASSUME LogoutAll \/ \E s \in Sessions : Logout(s) PROVE Survivors'
  <2>1. ASSUME NEW s \in Sessions PROVE Revoked(s).status # "active"
    BY DEF Revoked, TypeOK, Session
  <2>2. \A s \in Sessions : sess'[s].status = "active" => sess'[s] = sess[s]
    BY <1>12, <2>1 DEF LogoutAll, Logout, TypeOK
  <2> QED
    BY <1>0, <1>12, <2>2, StaysCurrent DEF LogoutAll, Logout, history
<1>13. ASSUME LockEnds PROVE Survivors'
  <2>1. ASSUME NEW q \in Requests, Current(req[q], written)
        PROVE  Current([req[q] EXCEPT !.copy.lock = "over"], written)
    BY <2>1 DEF Current, TypeOK, Request
  <2>2. \A q \in Requests : Current(req[q], written) => Current(req'[q], written)
    BY <1>13, <2>1 DEF LockEnds
  <2> QED
    BY <1>0, <1>13, <2>2, StaysCurrent DEF LockEnds, history
<1>14. CASE UNCHANGED vars
  BY <1>14, StaysCurrent DEF vars
<1> QED
  BY <1>3, <1>4, <1>5, <1>6, <1>7, <1>8, <1>9, <1>10, <1>11, <1>12, <1>13,
     <1>14 DEF Next

\* A session of an older password that outlives an acknowledged change was
\* being opened while the change revoked the sessions, in every interleaving.
THEOREM OnlyLateLogins == Spec => []OnlyLateLoginsSurvive
<1>1. Init => NoUpgrade /\ Ordered /\ Survivors
  BY NoUpgradeInit, OrderedInit
<1>2. TypeOK /\ Counted /\ NoUpgrade /\ Ordered /\ Survivors /\ [Next]_vars
        => NoUpgrade' /\ Ordered' /\ Survivors'
  BY NoUpgradeStep, OrderedStep, SurvivorsStep DEF Counted
<1>3. Survivors => OnlyLateLoginsSurvive
  BY DEF Survivors, OnlyLateLoginsSurvive
<1> QED
  BY <1>1, <1>2, <1>3, CountedHolds, PTL DEF Spec

-----------------------------------------------------------------------------
(* Signup.  The invariant says what a request that has read a record may   *)
(* still rely on: a verdict given on the present revision is still due     *)
(* (Sound), so that writing it counts every wrong code and spends only the *)
(* latest one.                                                             *)

Starting(f) == form[f].step \in {"replace", "insert", "again"}

Unborn(r) == ~r.stored /\ r.code = 0 /\ r.attempts = 0

\* The id of a registration that is not stored yet is known to its request only.
StartsAlone ==
    \A f \in Forms : Starting(f) =>
        /\ Unborn(pending[form[f].signup])
        /\ \A g \in Forms \ {f} : form[g].signup # form[f].signup

Busy == \A f \in Forms : form[f].step # "idle" => form[f].signup \in Signups

Sound(f, v) ==
    LET r == pending[form[f].signup] IN
    /\ form[f].step \in {"resend", "verify"}
    /\ r.stored
    /\ v = "wrong_code" => r.attempts < MaxAttempts
    /\ v = "resent" => r.code <= MaxResends
    /\ v = "ok" => form[f].step = "verify" /\ form[f].code = r.code

VerdictsHold ==
    \A f \in Forms : form[f].verdict # "none" =>
        /\ form[f].step \in {"resend", "verify"}
        /\ form[f].fresh => Sound(f, form[f].verdict)

CodesCounted == \A p \in Signups : wrong[p] = pending[p].attempts

\* A registration that became an account, or is about to, had a code issued.
Registered ==
    /\ \A p \in accounts : Known(p)
    /\ \A f \in Forms : ~Starting(f) /\ form[f].step # "idle" => Known(form[f].signup)

SInv == /\ SignupTypeOK /\ Busy /\ StartsAlone /\ VerdictsHold /\ CodesCounted
        /\ Registered

-----------------------------------------------------------------------------
LEMMA VerdictSound ==
    ASSUME SInv, NEW f \in Forms, Mutating(f), pending[form[f].signup].stored
    PROVE  Verdict(f) \in Verdicts /\ Sound(f, Verdict(f))
<1>1. form[f].signup \in Signups
  BY DEF SInv, Busy, Mutating
<1>2. pending[form[f].signup] \in Pending
  BY <1>1 DEF SInv, SignupTypeOK
<1> QED
  BY <1>2, SignupAssumption DEF Verdict, Verdicts, Sound, Mutating, ResendVerdict,
     VerifyVerdict, Pending, Codes

LEMMA MutatedTyped ==
    ASSUME SInv, NEW f \in Forms, NEW v \in Verdicts, Sound(f, v)
    PROVE  /\ form[f].signup \in Signups
           /\ Mutated(pending[form[f].signup], v) \in Pending
<1>1. form[f].signup \in Signups
  BY DEF SInv, Busy, Sound
<1> DEFINE r == pending[form[f].signup]
<1>2. r \in Pending
  BY <1>1 DEF SInv, SignupTypeOK
<1>3. CASE v = "resent"
  <2>1. r.code + 1 \in Codes
    BY <1>2, <1>3, SignupAssumption DEF Sound, Pending, Codes
  <2>2. Mutated(r, v) = [r EXCEPT !.code = r.code + 1, !.attempts = 0,
                                  !.cooling = TRUE, !.expired = FALSE]
    BY <1>3 DEF Mutated
  <2>3. 0 \in 0..MaxAttempts
    BY SignupAssumption
  <2> QED
    BY <2>1, <2>2, <2>3, <1>1, <1>2 DEF Pending
<1>4. CASE v = "wrong_code"
  <2>1. r.attempts + 1 \in 0..MaxAttempts
    BY <1>2, <1>4, SignupAssumption DEF Sound, Pending
  <2> QED
    BY <2>1, <1>1, <1>2, <1>4 DEF Mutated, Pending
<1>5. CASE v = "blocked"
  BY <1>1, <1>2, <1>5 DEF Mutated
<1>6. CASE v \notin {"resent", "wrong_code", "blocked"}
  BY <1>1, <1>2, <1>6 DEF Mutated, Pending
<1> QED
  BY <1>3, <1>4, <1>5, <1>6

\* No verdict takes the code away.
LEMMA MutatedKnown ==
    ASSUME NEW p \in Signups, NEW v \in Verdicts, pending[p] \in Pending, Known(p)
    PROVE  Mutated(pending[p], v).code # 0
  BY DEF Known, Mutated, Verdicts, Pending, Codes

LEMMA OutdatedForm ==
    ASSUME SInv, NEW g \in Forms, NEW changed
    PROVE  /\ Outdated(g, changed) \in Form
           /\ Outdated(g, changed).step = form[g].step
           /\ Outdated(g, changed).signup = form[g].signup
           /\ Outdated(g, changed).code = form[g].code
           /\ Outdated(g, changed).verdict = form[g].verdict
           /\ Outdated(g, changed).fresh => form[g].fresh /\ form[g].signup \notin changed
<1>1. form[g] \in Form
  BY DEF SInv, SignupTypeOK
<1> QED
  BY <1>1 DEF Outdated, Form

LEMMA NoFormTyped == NoForm \in Form
  BY DEF NoForm, Form

LEMMA MutateKeeps ==
    ASSUME SInv, NEW f \in Forms, NEW v \in Verdicts, Sound(f, v), Mutate(f, v)
    PROVE  SInv'
<1> DEFINE p == form[f].signup
<1>1. p \in Signups /\ Mutated(pending[p], v) \in Pending
  BY MutatedTyped
<1>2. /\ pending' = [pending EXCEPT ![p] = Mutated(pending[p], v)]
      /\ pending'[p] = Mutated(pending[p], v)
      /\ \A q \in Signups \ {p} : pending'[q] = pending[q]
  BY <1>1 DEF Mutate, SInv, SignupTypeOK
<1>3. /\ form' = [g \in Forms |->
                    IF g # f THEN Outdated(g, {p})
                    ELSE IF v = "ok" THEN [NoForm EXCEPT !.step = "create", !.signup = p]
                    ELSE NoForm]
      /\ \A g \in Forms \ {f} : form'[g] = Outdated(g, {p})
      /\ form'[f].step \in {"idle", "create"} /\ form'[f].verdict = "none"
      /\ form'[f] \in Form
      /\ form'[f].step # "idle" => form'[f].signup = p
      /\ form'[f].signup \in {0, p}
  BY <1>1 DEF Mutate, NoForm, Form
<1>4. SignupTypeOK'
  <2>1. pending' \in [Signups -> Pending]
    BY <1>1, <1>2 DEF SInv, SignupTypeOK
  <2>2. form' \in [Forms -> Form]
    BY <1>3, OutdatedForm
  <2>3. wrong' \in [Signups -> Nat]
    <3>1. wrong \in [Signups -> Nat] /\ wrong[p] \in Nat
      BY <1>1 DEF SInv, SignupTypeOK
    <3> DEFINE count == IF v = "resent" THEN 0
                        ELSE IF v = "wrong_code" THEN wrong[p] + 1 ELSE wrong[p]
    <3>2. count \in Nat
      BY <3>1
    <3>3. wrong' = [wrong EXCEPT ![p] = count]
      BY <1>1 DEF Mutate
    <3> HIDE DEF count
    <3> QED
      BY <3>1, <3>2, <3>3
  <2> QED
    BY <2>1, <2>2, <2>3 DEF Mutate, SInv, SignupTypeOK
<1>5. Busy'
  BY <1>1, <1>3, OutdatedForm DEF Busy, SInv
<1>6. StartsAlone'
  <2> SUFFICES ASSUME NEW g \in Forms, Starting(g)'
               PROVE  /\ Unborn(pending'[form'[g].signup])
                      /\ \A h \in Forms \ {g} : form'[h].signup # form'[g].signup
    BY DEF StartsAlone, Starting
  <2>1. g # f /\ Starting(g) /\ form'[g].signup = form[g].signup
    BY <1>3, OutdatedForm DEF Starting
  <2>2. form[g].signup \in Signups \ {p} /\ Unborn(pending[form[g].signup])
    BY <2>1 DEF SInv, StartsAlone, Busy, Starting
  <2>3. ASSUME NEW h \in Forms \ {g} PROVE form'[h].signup # form'[g].signup
    <3>1. form[h].signup # form[g].signup
      BY <2>1 DEF SInv, StartsAlone
    <3>2. form'[h].signup = form[h].signup \/ h = f
      BY <1>3, OutdatedForm
    <3> QED
      BY <3>1, <3>2, <2>1, <2>2, <1>3, SignupAssumption
  <2> QED
    BY <2>1, <2>2, <2>3, <1>2
<1>7. VerdictsHold'
  <2> SUFFICES ASSUME NEW g \in Forms, form'[g].verdict # "none"
               PROVE  /\ form'[g].step \in {"resend", "verify"}
                      /\ form'[g].fresh => Sound(g, form[g].verdict)'
                      /\ form'[g].verdict = form[g].verdict
    BY DEF VerdictsHold, Sound
  <2>1. g # f /\ form'[g] = Outdated(g, {p})
    BY <1>3
  <2>2. /\ form'[g].step = form[g].step /\ form'[g].signup = form[g].signup
        /\ form'[g].code = form[g].code /\ form'[g].verdict = form[g].verdict
        /\ form'[g].fresh => form[g].fresh /\ form[g].signup # p
    BY <2>1, OutdatedForm
  <2>3. form[g].step \in {"resend", "verify"}
    BY <2>2 DEF SInv, VerdictsHold
  <2>4. ASSUME form'[g].fresh PROVE Sound(g, form[g].verdict)'
    <3>1. Sound(g, form[g].verdict)
      BY <2>2, <2>4 DEF SInv, VerdictsHold
    <3>2. form[g].signup \in Signups \ {p}
      BY <2>2, <2>3, <2>4 DEF SInv, Busy
    <3> QED
      BY <3>1, <3>2, <2>2, <1>2 DEF Sound
  <2> QED
    BY <2>2, <2>3, <2>4
<1>8. CodesCounted'
  <2>1. pending[p] \in Pending /\ wrong[p] = pending[p].attempts
    BY <1>1 DEF SInv, SignupTypeOK, CodesCounted
  <2>2. wrong'[p] = pending'[p].attempts
    BY <2>1, <1>1, <1>2 DEF Mutate, Mutated, SInv, SignupTypeOK, Pending, Verdicts
  <2>3. ASSUME NEW q \in Signups \ {p} PROVE wrong'[q] = pending'[q].attempts
    BY <1>1, <1>2 DEF Mutate, SInv, SignupTypeOK, CodesCounted
  <2> QED
    BY <2>2, <2>3 DEF CodesCounted
<1>9. Registered'
  <2>1. pending[p] \in Pending /\ Known(p)
    BY <1>1 DEF Sound, SInv, SignupTypeOK, Registered, Starting
  <2>2. pending'[p].code # 0
    BY <1>1, <1>2, <2>1, MutatedKnown
  <2>3. \A q \in Signups : Known(q) => Known(q)'
    BY <1>2, <2>2 DEF Known
  <2>4. accounts' = accounts /\ accounts \subseteq Signups
    BY DEF Mutate, SInv, SignupTypeOK
  <2>5. ASSUME NEW g \in Forms, ~Starting(g)', form'[g].step # "idle"
        PROVE  Known(form[g].signup)'
    <3>1. CASE g = f
      BY <3>1, <2>5, <2>2, <1>3 DEF Known
    <3>2. CASE g # f
      <4>1. form'[g].step = form[g].step /\ form'[g].signup = form[g].signup
        BY <3>2, <1>3, OutdatedForm
      <4> QED
        BY <4>1, <2>5, <2>3 DEF SInv, Registered, Busy, Starting
    <3> QED
      BY <3>1, <3>2
  <2> QED
    BY <2>3, <2>4, <2>5 DEF SInv, Registered
<1> QED
  BY <1>4, <1>5, <1>6, <1>7, <1>8, <1>9 DEF SInv

-----------------------------------------------------------------------------
\* Storing a registration: its own record is new, the removed ones are gone.
LEMMA StoreKeeps ==
    ASSUME SInv, NEW f \in Forms, Starting(f), NEW removed, Store(f, removed)
    PROVE  SInv'
<1> DEFINE p == form[f].signup
<1>1. p \in Signups /\ Unborn(pending[p])
  BY DEF SInv, Busy, StartsAlone, Starting
<1>2. /\ pending'[p] = Started
      /\ \A q \in Signups \ {p} : pending'[q] \in {pending[q], Removed(q)}
      /\ \A q \in Signups \ {p} : q \notin removed => pending'[q] = pending[q]
  BY <1>1 DEF Store
<1>3. \A g \in Forms : form'[g] = IF g = f THEN NoForm ELSE Outdated(g, removed)
  BY DEF Store
<1>4. SignupTypeOK'
  <2>1. Started \in Pending
    BY SignupAssumption DEF Started, Pending, Codes
  <2>2. \A q \in Signups : Removed(q) \in Pending
    BY DEF SInv, SignupTypeOK, Removed, Pending
  <2>3. pending' \in [Signups -> Pending]
    BY <2>1, <2>2 DEF Store, SInv, SignupTypeOK
  <2>4. form' \in [Forms -> Form]
    BY NoFormTyped, OutdatedForm DEF Store
  <2> QED
    BY <2>3, <2>4 DEF Store, SInv, SignupTypeOK
<1>5. Busy'
  BY <1>3, OutdatedForm DEF Busy, SInv, NoForm
<1>6. StartsAlone'
  <2> SUFFICES ASSUME NEW g \in Forms, Starting(g)'
               PROVE  /\ Unborn(pending'[form'[g].signup])
                      /\ \A h \in Forms \ {g} : form'[h].signup # form'[g].signup
    BY DEF StartsAlone, Starting
  <2>1. g # f /\ Starting(g) /\ form'[g].signup = form[g].signup
    BY <1>3, OutdatedForm DEF Starting, NoForm
  <2>2. form[g].signup \in Signups \ {p} /\ Unborn(pending[form[g].signup])
    BY <2>1 DEF SInv, StartsAlone, Busy, Starting
  <2>3. Unborn(Removed(form[g].signup))
    BY <2>2 DEF Removed, Unborn, SInv, SignupTypeOK, Pending
  <2>4. ASSUME NEW h \in Forms \ {g} PROVE form'[h].signup # form'[g].signup
    <3>1. form[h].signup # form[g].signup
      BY <2>1 DEF SInv, StartsAlone
    <3>2. form'[h].signup = form[h].signup \/ form'[h].signup = 0
      BY <1>3, OutdatedForm DEF NoForm
    <3> QED
      BY <3>1, <3>2, <2>1, <2>2, SignupAssumption
  <2> QED
    BY <2>1, <2>2, <2>3, <2>4, <1>2
<1>7. VerdictsHold'
  <2> SUFFICES ASSUME NEW g \in Forms, form'[g].verdict # "none"
               PROVE  /\ form'[g].step \in {"resend", "verify"}
                      /\ form'[g].fresh => Sound(g, form[g].verdict)'
                      /\ form'[g].verdict = form[g].verdict
    BY DEF VerdictsHold, Sound
  <2>1. g # f
    BY <1>3 DEF NoForm
  <2>2. /\ form'[g].step = form[g].step /\ form'[g].signup = form[g].signup
        /\ form'[g].code = form[g].code /\ form'[g].verdict = form[g].verdict
        /\ form'[g].fresh => form[g].fresh /\ form[g].signup \notin removed
    BY <2>1, <1>3, OutdatedForm
  <2>3. form[g].step \in {"resend", "verify"} /\ form[g].signup \in Signups \ {p}
    BY <2>1, <2>2 DEF SInv, VerdictsHold, Busy, StartsAlone
  <2>4. ASSUME form'[g].fresh PROVE Sound(g, form[g].verdict)'
    <3>1. Sound(g, form[g].verdict)
      BY <2>2, <2>4 DEF SInv, VerdictsHold
    <3> QED
      BY <3>1, <2>2, <2>3, <2>4, <1>2 DEF Sound
  <2> QED
    BY <2>2, <2>3, <2>4
<1>8. CodesCounted'
  <2>1. wrong'[p] = pending'[p].attempts
    BY <1>1, <1>2 DEF Store, SInv, CodesCounted, Unborn, Started
  <2>2. ASSUME NEW q \in Signups \ {p} PROVE wrong'[q] = pending'[q].attempts
    BY <1>2 DEF Store, SInv, CodesCounted, Removed, SignupTypeOK, Pending
  <2> QED
    BY <2>1, <2>2 DEF CodesCounted
<1>9. Registered'
  <2>1. \A q \in Signups : Known(q) => Known(q)'
    BY <1>2 DEF Known, Started, Removed, SInv, SignupTypeOK, Pending
  <2>2. accounts' = accounts /\ accounts \subseteq Signups
    BY DEF Store, SInv, SignupTypeOK
  <2>3. ASSUME NEW g \in Forms, ~Starting(g)', form'[g].step # "idle"
        PROVE  Known(form[g].signup)'
    <3>1. g # f
      BY <2>3, <1>3 DEF NoForm
    <3>2. form'[g].step = form[g].step /\ form'[g].signup = form[g].signup
      BY <3>1, <1>3, OutdatedForm
    <3> QED
      BY <3>2, <2>3, <2>1 DEF SInv, Registered, Busy, Starting
  <2> QED
    BY <2>1, <2>2, <2>3 DEF SInv, Registered
<1> QED
  BY <1>4, <1>5, <1>6, <1>7, <1>8, <1>9 DEF SInv

\* A request goes to another of its steps, or ends, and no record changes.
LEMMA FormStepKeeps ==
    ASSUME SInv, NEW f \in Forms, NEW next \in Form,
           form' = [form EXCEPT ![f] = next],
           next.step # "idle" => next.signup \in Signups,
           next.step \in {"replace", "insert", "again"} =>
               /\ Unborn(pending[next.signup])
               /\ \A g \in Forms \ {f} : form[g].signup # next.signup,
           next.signup \notin {0, form[f].signup} =>
               \A g \in Forms \ {f} : Starting(g) => form[g].signup # next.signup,
           next.verdict # "none" =>
               /\ next.step = form[f].step /\ next.signup = form[f].signup
               /\ next.code = form[f].code /\ Sound(f, next.verdict),
           next.step \notin {"idle", "replace", "insert", "again"} => Known(next.signup),
           UNCHANGED <<mongo, pending, wrong>>,
           accounts' \subseteq Signups, \A p \in accounts' : Known(p),
           plan' \in [Signups -> SUBSET {"requested", "changed"}]
    PROVE  SInv'
<1>1. /\ form' \in [Forms -> Form]
      /\ form'[f] = next
      /\ \A g \in Forms \ {f} : form'[g] = form[g]
  BY DEF SInv, SignupTypeOK
<1>2. SignupTypeOK'
  BY <1>1 DEF SInv, SignupTypeOK
<1>3. Busy'
  BY <1>1 DEF SInv, Busy
<1>4. StartsAlone'
  <2> SUFFICES ASSUME NEW g \in Forms, Starting(g)'
               PROVE  /\ Unborn(pending[form'[g].signup])
                      /\ \A h \in Forms \ {g} : form'[h].signup # form'[g].signup
    BY DEF StartsAlone, Starting
  <2>1. CASE g = f
    BY <2>1, <1>1 DEF Starting
  <2>2. CASE g # f
    <3>1. Starting(g) /\ form'[g] = form[g]
      BY <2>2, <1>1 DEF Starting
    <3>2. /\ Unborn(pending[form[g].signup])
          /\ form[g].signup \in Signups
          /\ \A h \in Forms \ {g} : form[h].signup # form[g].signup
      BY <3>1 DEF SInv, StartsAlone, Busy, Starting
    <3>3. next.signup # form[g].signup
      BY <2>2, <3>1, <3>2, SignupAssumption
    <3> QED
      BY <3>1, <3>2, <3>3, <1>1
  <2> QED
    BY <2>1, <2>2
<1>5. VerdictsHold'
  BY <1>1 DEF SInv, VerdictsHold, Sound
<1>6. CodesCounted'
  BY DEF SInv, CodesCounted
<1>7. Registered'
  BY <1>1 DEF SInv, Registered, Starting, Known
<1> QED
  BY <1>2, <1>3, <1>4, <1>5, <1>6, <1>7 DEF SInv

\* A record expires, cools down or is removed; its request learns of the latter.
LEMMA RecordKeeps ==
    ASSUME SInv, NEW p \in Signups, NEW r \in Pending, pending[p].stored,
           pending' = [pending EXCEPT ![p] = r],
           r.code = pending[p].code, r.attempts = pending[p].attempts,
           \/ r.stored /\ form' = form
           \/ form' = [g \in Forms |-> Outdated(g, {p})],
           UNCHANGED <<mongo, accounts, plan, wrong>>
    PROVE  SInv'
<1>1. /\ pending' \in [Signups -> Pending]
      /\ pending'[p] = r
      /\ \A q \in Signups \ {p} : pending'[q] = pending[q]
  BY DEF SInv, SignupTypeOK
<1>2. /\ form' \in [Forms -> Form]
      /\ \A g \in Forms : /\ form'[g].step = form[g].step
                          /\ form'[g].signup = form[g].signup
                          /\ form'[g].code = form[g].code
                          /\ form'[g].verdict = form[g].verdict
                          /\ form'[g].fresh =>
                                form[g].fresh /\ (r.stored \/ form[g].signup # p)
  <2>1. CASE form' = form /\ r.stored
    BY <2>1 DEF SInv, SignupTypeOK
  <2>2. CASE form' = [g \in Forms |-> Outdated(g, {p})]
    <3>1. \A g \in Forms : form'[g] = Outdated(g, {p})
      BY <2>2
    <3> QED
      BY <2>2, <3>1, OutdatedForm
  <2> QED
    BY <2>1, <2>2
<1>3. SignupTypeOK'
  BY <1>1, <1>2 DEF SInv, SignupTypeOK
<1>4. Busy'
  BY <1>2 DEF SInv, Busy
<1>5. StartsAlone'
  <2>1. ~Unborn(pending[p])
    BY DEF Unborn
  <2> QED
    BY <1>1, <1>2, <2>1 DEF SInv, StartsAlone, Starting, Busy
<1>6. VerdictsHold'
  <2> SUFFICES ASSUME NEW g \in Forms, form[g].verdict # "none"
               PROVE  /\ form[g].step \in {"resend", "verify"}
                      /\ form'[g].fresh => Sound(g, form[g].verdict)'
    BY <1>2 DEF VerdictsHold, Sound
  <2>1. form[g].step \in {"resend", "verify"} /\ form[g].signup \in Signups
    BY DEF SInv, VerdictsHold, Busy
  <2>2. ASSUME form'[g].fresh PROVE Sound(g, form[g].verdict)'
    <3>1. Sound(g, form[g].verdict)
      BY <1>2, <2>2 DEF SInv, VerdictsHold
    <3> QED
      BY <3>1, <2>1, <2>2, <1>1, <1>2 DEF Sound
  <2> QED
    BY <2>1, <2>2
<1>7. CodesCounted'
  BY <1>1 DEF SInv, CodesCounted
<1>8. Registered'
  <2>1. \A q \in Signups : Known(q) => Known(q)'
    BY <1>1 DEF Known
  <2> QED
    BY <1>2, <2>1 DEF SInv, Registered, Starting, Busy, SignupTypeOK
<1> QED
  BY <1>3, <1>4, <1>5, <1>6, <1>7, <1>8 DEF SInv

-----------------------------------------------------------------------------
LEMMA FormTyped ==
    ASSUME SInv, NEW f \in Forms
    PROVE  form[f] \in Form
BY DEF SInv, SignupTypeOK

\* A request that ends leaves everything else as it is.
LEMMA EndKeeps ==
    ASSUME SInv, NEW f \in Forms, form' = [form EXCEPT ![f] = NoForm],
           UNCHANGED <<mongo, pending, accounts, wrong>>,
           plan' \in [Signups -> SUBSET {"requested", "changed"}]
    PROVE  SInv'
<1>1. /\ NoForm \in Form /\ NoForm.step = "idle" /\ NoForm.signup = 0
      /\ NoForm.verdict = "none"
  BY NoFormTyped DEF NoForm
<1>2. accounts' \subseteq Signups /\ \A p \in accounts' : Known(p)
  BY DEF SInv, SignupTypeOK, Registered
<1> QED
  BY <1>1, <1>2, FormStepKeeps

\* A request for a known registration begins.
LEMMA BeginKeeps ==
    ASSUME SInv, NEW f \in Forms, NEW p \in Signups, Known(p), NEW next \in Form,
           next.step \in {"resend", "verify", "subscribe"}, next.signup = p,
           next.verdict = "none",
           form' = [form EXCEPT ![f] = next],
           UNCHANGED <<mongo, pending, accounts, plan, wrong>>
    PROVE  SInv'
<1>1. \A g \in Forms : Starting(g) => form[g].signup # p
  BY DEF SInv, StartsAlone, Known, Unborn
<1>2. /\ accounts' \subseteq Signups /\ \A q \in accounts' : Known(q)
      /\ plan' \in [Signups -> SUBSET {"requested", "changed"}]
  BY DEF SInv, SignupTypeOK, Registered
<1> QED
  BY <1>1, <1>2, FormStepKeeps

LEMMA StartKeeps ==
    ASSUME SInv, NEW f \in Forms, NEW p \in Signups, Start(f, p)
    PROVE  SInv'
<1> DEFINE next == [NoForm EXCEPT !.step = "replace", !.signup = p]
<1>1. /\ next \in Form /\ next.step = "replace" /\ next.signup = p
      /\ next.verdict = "none"
  BY DEF NoForm, Form
<1> HIDE DEF next
<1>2. form' = [form EXCEPT ![f] = next]
  BY DEF next, Start
<1>3. Unborn(pending[p])
  BY DEF Start, Unborn, Unstarted
<1>4. /\ accounts' \subseteq Signups /\ \A q \in accounts' : Known(q)
      /\ plan' \in [Signups -> SUBSET {"requested", "changed"}]
  BY DEF Start, SInv, SignupTypeOK, Registered
<1>5. /\ \A g \in Forms \ {f} : form[g].signup # next.signup
      /\ Unborn(pending[next.signup])
      /\ UNCHANGED <<mongo, pending, wrong>>
  BY <1>1, <1>3 DEF Start
<1> QED
  BY <1>1, <1>2, <1>3, <1>4, <1>5, FormStepKeeps

\* The steps in which a request stores its registration or finds it cannot.
LEMMA StoringKeeps ==
    ASSUME SInv, NEW f \in Forms,
           \/ StoreJson(f) \/ StoreReplace(f) \/ StoreMissed(f) \/ StoreInsert(f)
           \/ StoreDuplicate(f) \/ StoreNothing(f)
    PROVE  SInv'
<1>1. CASE StoreJson(f)
  BY <1>1, StoreKeeps DEF StoreJson, Starting
<1>2. CASE StoreReplace(f)
  BY <1>2, StoreKeeps DEF StoreReplace, Starting
<1>3. CASE StoreInsert(f)
  BY <1>3, StoreKeeps DEF StoreInsert, Starting
<1>4. ASSUME NEW step \in {"insert", "again"}, Starting(f),
             form' = [form EXCEPT ![f].step = step],
             UNCHANGED <<mongo, pending, accounts, plan, wrong>>
      PROVE  SInv'
  <2> DEFINE next == [form[f] EXCEPT !.step = step]
  <2>1. /\ next \in Form /\ next.step = step /\ next.signup = form[f].signup
        /\ next.verdict = "none"
    BY <1>4, FormTyped DEF Form, SInv, VerdictsHold, Starting
  <2>2. /\ form[f].signup \in Signups /\ Unborn(pending[form[f].signup])
        /\ \A g \in Forms \ {f} : form[g].signup # form[f].signup
    BY <1>4 DEF SInv, StartsAlone, Busy, Starting
  <2> HIDE DEF next
  <2>3. form' = [form EXCEPT ![f] = next]
    BY <1>4 DEF next
  <2>4. /\ accounts' \subseteq Signups /\ \A q \in accounts' : Known(q)
        /\ plan' \in [Signups -> SUBSET {"requested", "changed"}]
    BY <1>4 DEF SInv, SignupTypeOK, Registered
  <2>5. /\ next.signup \in Signups /\ next.signup \in {0, form[f].signup}
        /\ \A g \in Forms \ {f} : form[g].signup # next.signup
        /\ Unborn(pending[next.signup])
    BY <2>1, <2>2
  <2>6. UNCHANGED <<mongo, pending, wrong>>
    BY <1>4
  <2> QED
    BY <2>1, <2>3, <2>4, <2>5, <2>6, FormStepKeeps
<1>5. CASE StoreMissed(f)
  BY <1>5, <1>4 DEF StoreMissed, Starting
<1>6. CASE StoreDuplicate(f)
  BY <1>6, <1>4 DEF StoreDuplicate, Starting
<1>7. CASE StoreNothing(f)
  <2> DEFINE p == form[f].signup
             lost == [Started EXCEPT !.stored = FALSE]
  <2>1. /\ p \in Signups /\ Unborn(pending[p])
        /\ \A g \in Forms \ {f} : form[g].signup # p
    BY <1>7 DEF SInv, StartsAlone, Busy, Starting, StoreNothing
  <2>2. lost \in Pending /\ lost.attempts = 0
    <3>1. 1 \in Codes /\ 0 \in 0..MaxAttempts
      BY SignupAssumption DEF Codes
    <3> QED
      BY <3>1 DEF Started, Pending
  <2> HIDE DEF lost
  <2>3. /\ pending' = [pending EXCEPT ![p] = lost]
        /\ pending' \in [Signups -> Pending] /\ pending'[p] = lost
        /\ \A q \in Signups \ {p} : pending'[q] = pending[q]
    BY <1>7, <2>1, <2>2 DEF StoreNothing, SInv, SignupTypeOK, lost
  <2>4. /\ form' \in [Forms -> Form] /\ form'[f] = NoForm
        /\ \A g \in Forms \ {f} : form'[g] = form[g]
    BY <1>7, NoFormTyped DEF StoreNothing, SInv, SignupTypeOK
  <2>5. SignupTypeOK'
    BY <1>7, <2>3, <2>4 DEF StoreNothing, SInv, SignupTypeOK
  <2>6. Busy'
    BY <2>4 DEF SInv, Busy, NoForm
  <2>7. StartsAlone'
    BY <2>1, <2>3, <2>4, SignupAssumption DEF SInv, StartsAlone, Starting, Busy, NoForm
  <2>8. VerdictsHold'
    BY <2>1, <2>3, <2>4 DEF SInv, VerdictsHold, Sound, Busy, NoForm
  <2>9. CodesCounted'
    BY <1>7, <2>1, <2>2, <2>3 DEF StoreNothing, SInv, CodesCounted, Unborn
  <2>10. Registered'
    <3>1. \A q \in Signups : Known(q) => Known(q)'
      BY <2>1, <2>3 DEF Known, Unborn
    <3> QED
      BY <1>7, <2>4, <3>1
         DEF StoreNothing, SInv, Registered, Starting, Busy, SignupTypeOK, NoForm
  <2> QED
    BY <2>5, <2>6, <2>7, <2>8, <2>9, <2>10 DEF SInv
<1> QED
  BY <1>1, <1>2, <1>3, <1>5, <1>6, <1>7

\* The steps of mutatePendingSignup.
LEMMA MutatingKeeps ==
    ASSUME SInv, NEW f \in Forms,
           \/ MutateAbsent(f) \/ MutateJson(f) \/ MutateRead(f) \/ MutateWrite(f)
           \/ MutateMissed(f)
    PROVE  SInv'
<1>1. CASE MutateAbsent(f)
  BY <1>1, EndKeeps DEF MutateAbsent, SInv, SignupTypeOK
<1>2. CASE MutateJson(f)
  BY <1>2, VerdictSound, MutateKeeps DEF MutateJson
<1>3. CASE MutateWrite(f)
  <2>1. form[f].verdict \in Verdicts /\ Sound(f, form[f].verdict)
    BY <1>3, FormTyped DEF MutateWrite, Matches, SInv, VerdictsHold, Form
  <2> QED
    BY <1>3, <2>1, MutateKeeps DEF MutateWrite
<1>4. CASE MutateRead(f)
  <2> DEFINE next == [form[f] EXCEPT !.verdict = Verdict(f), !.fresh = TRUE]
  <2>1. /\ Mutating(f) /\ form[f].signup \in Signups
        /\ Verdict(f) \in Verdicts /\ Sound(f, Verdict(f))
    BY <1>4, VerdictSound DEF MutateRead, Mutating, SInv, Busy
  <2>2. /\ next \in Form /\ next.step = form[f].step
        /\ next.signup = form[f].signup /\ next.code = form[f].code
        /\ next.verdict = Verdict(f)
    BY <2>1, FormTyped DEF Form
  <2> HIDE DEF next
  <2>3. form' = [form EXCEPT ![f] = next]
    BY <1>4 DEF next, MutateRead
  <2>4. next.step \in {"resend", "verify"}
    BY <2>1, <2>2 DEF Mutating
  <2>5. /\ accounts' \subseteq Signups /\ \A q \in accounts' : Known(q)
        /\ plan' \in [Signups -> SUBSET {"requested", "changed"}]
    BY <1>4 DEF MutateRead, SInv, SignupTypeOK, Registered
  <2>6. Known(next.signup)
    BY <2>1, <2>2 DEF Mutating, SInv, Registered, Starting
  <2> QED
    BY <1>4, <2>1, <2>2, <2>3, <2>4, <2>5, <2>6, FormStepKeeps DEF MutateRead
<1>5. CASE MutateMissed(f)
  <2> DEFINE next == [form[f] EXCEPT !.verdict = "none"]
  <2>1. /\ form[f].signup \in Signups /\ form[f].step \in {"resend", "verify"}
    BY <1>5 DEF MutateMissed, SInv, Busy, VerdictsHold
  <2>2. /\ next \in Form /\ next.step = form[f].step
        /\ next.signup = form[f].signup /\ next.verdict = "none"
    BY FormTyped DEF Form
  <2> HIDE DEF next
  <2>3. form' = [form EXCEPT ![f] = next]
    BY <1>5 DEF next, MutateMissed
  <2>4. /\ accounts' \subseteq Signups /\ \A q \in accounts' : Known(q)
        /\ plan' \in [Signups -> SUBSET {"requested", "changed"}]
    BY <1>5 DEF MutateMissed, SInv, SignupTypeOK, Registered
  <2>5. next.step \in {"resend", "verify"}
    BY <2>1, <2>2
  <2>6. Known(next.signup)
    BY <2>1, <2>2 DEF SInv, Registered, Starting
  <2> QED
    BY <1>5, <2>1, <2>2, <2>3, <2>4, <2>5, <2>6, FormStepKeeps DEF MutateMissed
<1> QED
  BY <1>1, <1>2, <1>3, <1>4, <1>5

\* The account, its subscription and the end of the request.
LEMMA CreatingKeeps ==
    ASSUME SInv, NEW f \in Forms,
           \/ CreateUser(f) \/ CreateConflict(f)
           \/ SubscribeMissed(f) \/ SubscribeInsert(f) \/ SubscribeFound(f)
           \/ FormFail(f)
    PROVE  SInv'
<1>1. CASE CreateUser(f)
  <2> DEFINE next == [form[f] EXCEPT !.step = "subscribe"]
  <2>1. /\ form[f].signup \in Signups /\ form[f].verdict = "none"
        /\ Known(form[f].signup)
    BY <1>1 DEF CreateUser, SInv, Busy, VerdictsHold, Registered, Starting
  <2>2. /\ next \in Form /\ next.step = "subscribe"
        /\ next.signup = form[f].signup /\ next.verdict = "none"
    BY <2>1, FormTyped DEF Form
  <2> HIDE DEF next
  <2>3. form' = [form EXCEPT ![f] = next]
    BY <1>1 DEF next, CreateUser
  <2>4. /\ accounts' \subseteq Signups /\ \A q \in accounts' : Known(q)
        /\ plan' \in [Signups -> SUBSET {"requested", "changed"}]
    BY <1>1, <2>1 DEF CreateUser, SInv, SignupTypeOK, Registered
  <2> QED
    BY <1>1, <2>1, <2>2, <2>3, <2>4, FormStepKeeps DEF CreateUser
<1>2. CASE CreateConflict(f)
  BY <1>2, EndKeeps DEF CreateConflict, SInv, SignupTypeOK
<1>3. CASE SubscribeMissed(f)
  <2> DEFINE next == [form[f] EXCEPT !.step = "add"]
  <2>1. /\ form[f].signup \in Signups /\ form[f].verdict = "none"
        /\ Known(form[f].signup)
    BY <1>3 DEF SubscribeMissed, SInv, Busy, VerdictsHold, Registered, Starting
  <2>2. /\ next \in Form /\ next.step = "add"
        /\ next.signup = form[f].signup /\ next.verdict = "none"
    BY <2>1, FormTyped DEF Form
  <2> HIDE DEF next
  <2>3. form' = [form EXCEPT ![f] = next]
    BY <1>3 DEF next, SubscribeMissed
  <2>4. /\ accounts' \subseteq Signups /\ \A q \in accounts' : Known(q)
        /\ plan' \in [Signups -> SUBSET {"requested", "changed"}]
    BY <1>3 DEF SubscribeMissed, SInv, SignupTypeOK, Registered
  <2> QED
    BY <1>3, <2>1, <2>2, <2>3, <2>4, FormStepKeeps DEF SubscribeMissed
<1>5. CASE SubscribeInsert(f)
  <2>1. plan' \in [Signups -> SUBSET {"requested", "changed"}]
    BY <1>5 DEF SubscribeInsert, Subscribed, SInv, SignupTypeOK
  <2> QED
    BY <1>5, <2>1, EndKeeps DEF SubscribeInsert, Subscribed
<1>6. CASE SubscribeFound(f)
  BY <1>6, EndKeeps DEF SubscribeFound, SInv, SignupTypeOK
<1>4. CASE FormFail(f)
  BY <1>4, EndKeeps DEF FormFail, SInv, SignupTypeOK
<1> QED
  BY <1>1, <1>2, <1>3, <1>4, <1>5, <1>6

\* Time, and the actions of the accounts there are.
LEMMA PassingKeeps ==
    ASSUME SInv, NEW p \in Signups,
           ChangePlan(p) \/ Expire(p) \/ CoolDown(p) \/ Purge(p)
    PROVE  SInv'
<1>1. pending[p] \in Pending
  BY DEF SInv, SignupTypeOK
<1>4. CASE ChangePlan(p)
  <2>1. plan' \in [Signups -> SUBSET {"requested", "changed"}]
    BY <1>4 DEF ChangePlan, SInv, SignupTypeOK
  <2> QED
    BY <1>4, <2>1 DEF ChangePlan, SInv, SignupTypeOK, Busy, StartsAlone, Starting,
       VerdictsHold, Sound, CodesCounted, Registered, Known
<1>5. CASE Expire(p)
  <2> DEFINE r == [pending[p] EXCEPT !.expired = TRUE]
  <2>1. /\ r \in Pending /\ r.stored /\ r.code = pending[p].code
        /\ r.attempts = pending[p].attempts
    BY <1>1, <1>5 DEF Pending, Expire
  <2> HIDE DEF r
  <2>2. pending' = [pending EXCEPT ![p] = r]
    BY <1>5 DEF Expire, r
  <2> QED
    BY <1>5, <2>1, <2>2, RecordKeeps DEF Expire
<1>6. CASE CoolDown(p)
  <2> DEFINE r == [pending[p] EXCEPT !.cooling = FALSE]
  <2>1. /\ r \in Pending /\ r.stored /\ r.code = pending[p].code
        /\ r.attempts = pending[p].attempts
    BY <1>1, <1>6 DEF Pending, CoolDown
  <2> HIDE DEF r
  <2>2. pending' = [pending EXCEPT ![p] = r]
    BY <1>6 DEF CoolDown, r
  <2> QED
    BY <1>6, <2>1, <2>2, RecordKeeps DEF CoolDown
<1>7. CASE Purge(p)
  <2>1. /\ Removed(p) \in Pending /\ Removed(p).code = pending[p].code
        /\ Removed(p).attempts = pending[p].attempts
    BY <1>1 DEF Pending, Removed
  <2> QED
    BY <1>7, <2>1, RecordKeeps DEF Purge
<1> QED
  BY <1>4, <1>5, <1>6, <1>7

LEMMA InitSInv == SignupInit => SInv
<1>1. Unstarted \in Pending /\ Unborn(Unstarted)
  BY SignupAssumption DEF Unstarted, Pending, Unborn
<1> QED
  BY <1>1, NoFormTyped DEF SignupInit, SInv, SignupTypeOK, Busy, StartsAlone, Starting,
     VerdictsHold, CodesCounted, Registered, NoForm, Unstarted

LEMMA NextSInv == SInv /\ [SignupNext]_signupVars => SInv'
<1> SUFFICES ASSUME SInv, [SignupNext]_signupVars PROVE SInv'
  OBVIOUS
<1>1. CASE UNCHANGED signupVars
  BY <1>1 DEF signupVars, SInv, SignupTypeOK, Busy, StartsAlone, Starting,
     VerdictsHold, Sound, CodesCounted, Registered, Known
<1>2. ASSUME NEW f \in Forms, NEW p \in Signups, Start(f, p) PROVE SInv'
  BY <1>2, StartKeeps
<1>3. ASSUME NEW f \in Forms, NEW p \in Signups, Resend(f, p) PROVE SInv'
  <2> DEFINE next == [NoForm EXCEPT !.step = "resend", !.signup = p]
  <2>1. /\ next \in Form /\ next.step = "resend" /\ next.signup = p
        /\ next.verdict = "none"
    BY DEF NoForm, Form
  <2>2. form' = [form EXCEPT ![f] = next] /\ Known(p)
    BY <1>3 DEF Resend
  <2> HIDE DEF next
  <2> QED
    BY <1>3, <2>1, <2>2, BeginKeeps DEF Resend
<1>4. ASSUME NEW f \in Forms, NEW p \in Signups, NEW c \in {0} \cup Codes,
             Verify(f, p, c)
      PROVE  SInv'
  <2> DEFINE next == [NoForm EXCEPT !.step = "verify", !.signup = p, !.code = c]
  <2>1. /\ next \in Form /\ next.step = "verify" /\ next.signup = p
        /\ next.verdict = "none"
    BY DEF NoForm, Form
  <2>2. form' = [form EXCEPT ![f] = next] /\ Known(p)
    BY <1>4 DEF Verify
  <2> HIDE DEF next
  <2> QED
    BY <1>4, <2>1, <2>2, BeginKeeps DEF Verify
<1>5. ASSUME NEW f \in Forms,
             \/ StoreJson(f) \/ StoreReplace(f) \/ StoreMissed(f) \/ StoreInsert(f)
             \/ StoreDuplicate(f) \/ StoreNothing(f)
      PROVE  SInv'
  BY <1>5, StoringKeeps
<1>6. ASSUME NEW f \in Forms,
             \/ MutateAbsent(f) \/ MutateJson(f) \/ MutateRead(f) \/ MutateWrite(f)
             \/ MutateMissed(f)
      PROVE  SInv'
  BY <1>6, MutatingKeeps
<1>7. ASSUME NEW f \in Forms,
             \/ CreateUser(f) \/ CreateConflict(f)
             \/ SubscribeMissed(f) \/ SubscribeInsert(f) \/ SubscribeFound(f)
             \/ FormFail(f)
      PROVE  SInv'
  BY <1>7, CreatingKeeps
<1>8. ASSUME NEW p \in Signups,
             ChangePlan(p) \/ Expire(p) \/ CoolDown(p) \/ Purge(p)
      PROVE  SInv'
  BY <1>8, PassingKeeps
<1>9. ASSUME NEW f \in Forms, NEW p \in Signups, Login(f, p) PROVE SInv'
  <2> DEFINE next == [NoForm EXCEPT !.step = "subscribe", !.signup = p]
  <2>1. /\ next \in Form /\ next.step = "subscribe" /\ next.signup = p
        /\ next.verdict = "none"
    BY DEF NoForm, Form
  <2>2. form' = [form EXCEPT ![f] = next] /\ Known(p)
    BY <1>9 DEF Login, SInv, Registered
  <2> HIDE DEF next
  <2> QED
    BY <1>9, <2>1, <2>2, BeginKeeps DEF Login
<1> QED
  BY <1>1, <1>2, <1>3, <1>4, <1>5, <1>6, <1>7, <1>8, <1>9 DEF SignupNext

-----------------------------------------------------------------------------
\* Signup stays well typed (SignupTypeOK), and so does what its requests rely on.
THEOREM SignupTypeCorrect == SignupSpec => []SignupTypeOK
<1>1. SInv => SignupTypeOK
  BY DEF SInv
<1> QED
  BY <1>1, InitSInv, NextSInv, PTL DEF SignupSpec

\* Of the guesses at one code at most MaxAttempts are answered, on either store
\* and however many servers compare them: the record counts every one.
THEOREM GuessesAreBounded == SignupSpec => []GuessesBounded
<1>1. SInv => GuessesBounded
  <2>1. ASSUME SInv, NEW p \in Signups PROVE wrong[p] <= MaxAttempts
    <3>1. pending[p].attempts \in 0..MaxAttempts
      BY <2>1 DEF SInv, SignupTypeOK, Pending
    <3> QED
      BY <2>1, <3>1, SignupAssumption DEF SInv, CodesCounted
  <2> QED
    BY <2>1 DEF GuessesBounded
<1> QED
  BY <1>1, InitSInv, NextSInv, PTL DEF SignupSpec

\* verifySignup accepts the latest code only, and only one of the requests that
\* present it.
THEOREM LatestCodeIsSpent == SignupSpec => SpentByLatestCode
<1> DEFINE A(f) == Accepts(f) =>
                     LET p == form[f].signup IN
                     /\ pending[p].stored /\ ~pending'[p].stored
                     /\ form[f].code = pending[p].code
<1>1. ASSUME SInv, SignupNext, NEW f \in Forms PROVE A(f)
  <2> SUFFICES ASSUME Accepts(f)
               PROVE  LET p == form[f].signup IN
                      /\ pending[p].stored /\ ~pending'[p].stored
                      /\ form[f].code = pending[p].code
    OBVIOUS
  <2>1. form \in [Forms -> Form] /\ form[f].step = "verify" /\ form'[f].step = "create"
    BY <1>1 DEF SInv, SignupTypeOK, Accepts
  <2>2. (MutateJson(f) /\ Mutate(f, Verdict(f)) /\ Verdict(f) = "ok")
           \/ (MutateWrite(f) /\ Mutate(f, form[f].verdict) /\ form[f].verdict = "ok")
    <3>1. ASSUME NEW g \in Forms, NEW v, Mutate(g, v) PROVE g = f /\ v = "ok"
      BY <3>1, <2>1, <1>1, OutdatedForm DEF Mutate, NoForm
    <3>2. ASSUME NEW g \in Forms, NEW removed, Store(g, removed) PROVE FALSE
      BY <3>2, <2>1, <1>1, OutdatedForm DEF Store, NoForm
    <3>3. ASSUME NEW g \in Forms, NEW p \in Signups,
                 \/ Start(g, p) \/ Resend(g, p) \/ Login(g, p)
                 \/ \E c \in {0} \cup Codes : Verify(g, p, c)
          PROVE  FALSE
      BY <3>3, <2>1 DEF Start, Resend, Login, Verify, NoForm
    <3>4. ASSUME NEW g \in Forms,
                 \/ StoreMissed(g) \/ StoreDuplicate(g) \/ StoreNothing(g)
                 \/ MutateAbsent(g) \/ MutateRead(g) \/ MutateMissed(g)
                 \/ CreateUser(g) \/ CreateConflict(g)
                 \/ SubscribeMissed(g) \/ SubscribeInsert(g) \/ SubscribeFound(g)
                 \/ FormFail(g)
          PROVE  FALSE
      <4>1. ASSUME NEW v, form' = [form EXCEPT ![g].step = v], v # "create"
            PROVE  FALSE
        BY <4>1, <2>1 DEF Form
      <4>2. ASSUME form' = [form EXCEPT ![g] = NoForm] PROVE FALSE
        BY <4>2, <2>1 DEF NoForm
      <4>3. CASE MutateRead(g)
        BY <4>3, <2>1 DEF MutateRead, Form
      <4>4. CASE MutateMissed(g)
        BY <4>4, <2>1 DEF MutateMissed, Form
      <4>5. CASE StoreMissed(g) \/ StoreDuplicate(g) \/ CreateUser(g) \/ SubscribeMissed(g)
        BY <4>5, <4>1 DEF StoreMissed, StoreDuplicate, CreateUser, SubscribeMissed
      <4> QED
        BY <3>4, <4>2, <4>3, <4>4, <4>5 DEF StoreNothing, MutateAbsent,
           CreateConflict, SubscribeInsert, Subscribed, SubscribeFound, FormFail
    <3>5. ASSUME NEW p \in Signups,
                 ChangePlan(p) \/ Expire(p) \/ CoolDown(p) \/ Purge(p)
          PROVE  FALSE
      BY <3>5, <2>1, <1>1, OutdatedForm
         DEF ChangePlan, Expire, CoolDown, Purge
    <3>6. ASSUME NEW g \in Forms, StoreJson(g) \/ StoreReplace(g) \/ StoreInsert(g)
          PROVE  FALSE
      BY <3>6, <3>2 DEF StoreJson, StoreReplace, StoreInsert
    <3>7. ASSUME NEW g \in Forms, MutateJson(g) PROVE g = f /\ Verdict(f) = "ok"
      BY <3>7, <3>1 DEF MutateJson
    <3>8. ASSUME NEW g \in Forms, MutateWrite(g) PROVE g = f /\ form[f].verdict = "ok"
      BY <3>8, <3>1 DEF MutateWrite
    <3> QED
      BY <1>1, <3>3, <3>4, <3>5, <3>6, <3>7, <3>8
         DEF SignupNext, MutateJson, MutateWrite
  <2>3. Sound(f, "ok") /\ Mutate(f, "ok")
    BY <2>2, <1>1, VerdictSound
       DEF MutateJson, MutateWrite, Matches, SInv, VerdictsHold
  <2>4. form[f].signup \in Signups /\ pending \in [Signups -> Pending]
    BY <2>3, <1>1 DEF SInv, SignupTypeOK, Busy, Sound
  <2>5. ~pending'[form[f].signup].stored
    BY <2>3, <2>4 DEF Mutate, Mutated, Pending
  <2> QED
    BY <2>3, <2>5 DEF Sound
<1>2. SInv /\ SInv' /\ [SignupNext]_signupVars
        => [\A f \in Forms : A(f)]_signupVars
  BY <1>1
<1>3. [][\A f \in Forms : A(f)]_signupVars => SpentByLatestCode
  BY DEF SpentByLatestCode
<1> QED
  BY <1>2, <1>3, InitSInv, NextSInv, PTL DEF SignupSpec

\* Accounts are unique by address and by user name, because createUser looks at
\* the indexes again in the update that adds the account.
THEOREM IdentitiesAreUnique == SignupSpec => []UniqueIdentity
<1>1. SignupInit => UniqueIdentity
  BY DEF SignupInit, UniqueIdentity
<1>2. UniqueIdentity /\ [SignupNext]_signupVars => UniqueIdentity'
  <2> SUFFICES ASSUME UniqueIdentity, [SignupNext]_signupVars PROVE UniqueIdentity'
    OBVIOUS
  <2>1. accounts' = accounts \/ \E f \in Forms : CreateUser(f)
    BY DEF SignupNext, signupVars, Start, Resend, Login, Verify, StoreJson,
       StoreReplace, StoreMissed, StoreInsert, StoreDuplicate, StoreNothing, Store,
       MutateAbsent, MutateJson, MutateRead, MutateWrite, MutateMissed, Mutate,
       CreateConflict, SubscribeMissed, SubscribeInsert, Subscribed, SubscribeFound,
       FormFail, ChangePlan, Expire, CoolDown, Purge
  <2>2. ASSUME NEW f \in Forms, CreateUser(f) PROVE UniqueIdentity'
    BY <2>2 DEF CreateUser, Free, UniqueIdentity
  <2> QED
    BY <2>1, <2>2 DEF UniqueIdentity
<1> QED
  BY <1>1, <1>2, PTL DEF SignupSpec

\* No account has two active subscriptions.
OnePlan == \A p \in Signups : plan[p] \in {{}, {"requested"}, {"changed"}}

\* Only these steps touch the subscriptions.
LEMMA PlanSteps ==
    ASSUME [SignupNext]_signupVars
    PROVE  \/ plan' = plan
           \/ \E f \in Forms : SubscribeInsert(f)
           \/ \E p \in Signups : ChangePlan(p)
  BY DEF SignupNext, signupVars, Start, Resend, Login, Verify, StoreJson,
     StoreReplace, StoreMissed, StoreInsert, StoreDuplicate, StoreNothing, Store,
     MutateAbsent, MutateJson, MutateRead, MutateWrite, MutateMissed, Mutate,
     CreateUser, CreateConflict, SubscribeMissed, SubscribeFound, FormFail, Expire,
     CoolDown, Purge

\* One step on the active subscriptions of p: one is inserted where there is
\* none, or the one there is changes its plan.
LEMMA PlanMoves ==
    ASSUME SInv, OnePlan, [SignupNext]_signupVars, NEW p \in Signups
    PROVE  \/ plan'[p] = plan[p]
           \/ plan[p] = {} /\ plan'[p] = {"requested"}
           \/ plan'[p] = {"changed"}
<1>1. plan \in [Signups -> SUBSET {"requested", "changed"}]
  BY DEF SInv, SignupTypeOK
<1>2. ASSUME NEW f \in Forms, SubscribeInsert(f)
      PROVE  plan'[p] = plan[p] \/ (plan[p] = {} /\ plan'[p] = {"requested"})
  BY <1>1, <1>2 DEF SubscribeInsert, Subscribed
<1>3. ASSUME NEW q \in Signups, ChangePlan(q)
      PROVE  plan'[p] = plan[p] \/ plan'[p] = {"changed"}
  <2>1. PICK old \in plan[q] : plan' = [plan EXCEPT ![q] = (@ \ {old}) \cup {"changed"}]
    BY <1>3 DEF ChangePlan
  <2>2. (plan[q] \ {old}) \cup {"changed"} = {"changed"}
    BY <2>1 DEF OnePlan
  <2> QED
    BY <1>1, <2>1, <2>2
<1> QED
  BY <1>2, <1>3, PlanSteps

\* Lookups and inserts of ensureSubscription that interleave, with each other
\* and with changes of the plan, leave one active subscription; a plan the
\* account changed to stands.
THEOREM PlanStands == SignupSpec => ChangedPlanStands
<1>1. SignupInit => OnePlan
  BY DEF SignupInit, OnePlan
<1>2. SInv /\ OnePlan /\ [SignupNext]_signupVars => OnePlan'
  BY PlanMoves DEF OnePlan
<1>3. ASSUME SInv, OnePlan, [SignupNext]_signupVars, NEW p \in Signups,
             "changed" \in plan[p]
      PROVE  plan'[p] = {"changed"}
  <2>1. plan[p] = {"changed"}
    BY <1>3 DEF OnePlan
  <2> QED
    BY <1>3, <2>1, PlanMoves
<1>4. SInv /\ OnePlan /\ [SignupNext]_signupVars
        => [\A p \in Signups :
               "changed" \in plan[p] => plan'[p] = {"changed"}]_signupVars
  BY <1>3
<1> QED
  BY <1>1, <1>2, <1>4, InitSInv, NextSInv, PTL DEF SignupSpec, ChangedPlanStands
=============================================================================
