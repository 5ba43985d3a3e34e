------------------------------- MODULE Signup -------------------------------
(***************************************************************************)
(* Signing up: a registration is pending until the code mailed to its      *)
(* address is presented, and only then an account and its subscription are *)
(* created (src/modules/auth/auth-service.js, pending-signup-store.js).    *)
(*                                                                         *)
(* mutatePendingSignup, like updateUser, is one atomic step on the JSON    *)
(* file; on MongoDB it reads the record, decides, and then replaces or     *)
(* deletes the record of that revision, up to eight times.  A subscription *)
(* is found or added in one update of the JSON file; on MongoDB it is      *)
(* looked up first and inserted next (plans/subscription-store.js).        *)
(*                                                                         *)
(* Codes are numbered in the order they are issued for a signup, and 0 is  *)
(* a code that never was.  The fixed code of development setups, which     *)
(* makes all of them equal, is left out.                                   *)
(***************************************************************************)
EXTENDS Naturals

CONSTANTS
    Signups,        \* bound: the registrations that are started
    Forms,          \* requests being served, by any server process
    EmailOf,        \* EmailOf[p], NameOf[p]: what registration p asks for
    NameOf,
    MaxResends,     \* config.verification.maxResends
    MaxAttempts     \* config.verification.maxAttempts

ASSUME SignupAssumption ==
    /\ 0 \notin Signups
    /\ MaxResends \in Nat
    /\ MaxAttempts \in Nat \ {0}

VARIABLES
    mongo,      \* mongoEnabled()
    pending,    \* pending[p]: the record of registration p
    form,       \* form[f]: the request being served
    accounts,   \* the registrations that became accounts
    plan,       \* plan[p]: what the active subscriptions of the account are for:
                \* the plan that was asked for, or one it was changed to
    wrong       \* wrong[p]: wrong codes answered since the last code was issued

signupVars == <<mongo, pending, form, accounts, plan, wrong>>

-----------------------------------------------------------------------------
Codes == 1..(MaxResends + 1)

\* A record keeps its last contents when it is no longer stored.  Nothing reads
\* them, except that no later registration has its id.
Pending == [stored : BOOLEAN, code : {0} \cup Codes, attempts : 0..MaxAttempts,
            cooling : BOOLEAN, expired : BOOLEAN]

Unstarted == [stored |-> FALSE, code |-> 0, attempts |-> 0,
              cooling |-> FALSE, expired |-> FALSE]

Started == [stored |-> TRUE, code |-> 1, attempts |-> 0,
            cooling |-> TRUE, expired |-> FALSE]

Verdicts == {"expired", "blocked", "resent", "too_many_attempts", "wrong_code", "ok"}

\* verdict: what mutatePendingSignup made of the record it read; fresh: the
\* revision of the record is still the one it read.
Form == [step : {"idle", "replace", "insert", "again", "resend", "verify",
                 "create", "subscribe", "add"},
         signup : {0} \cup Signups, code : {0} \cup Codes,
         verdict : {"none"} \cup Verdicts, fresh : BOOLEAN]

NoForm == [step |-> "idle", signup |-> 0, code |-> 0,
           verdict |-> "none", fresh |-> FALSE]

\* Every variable has a value of its kind.
SignupTypeOK ==
    /\ mongo \in BOOLEAN
    /\ pending \in [Signups -> Pending]
    /\ form \in [Forms -> Form]
    /\ accounts \subseteq Signups
    /\ plan \in [Signups -> SUBSET {"requested", "changed"}]
    /\ wrong \in [Signups -> Nat]

SignupInit ==
    /\ mongo \in BOOLEAN
    /\ pending = [p \in Signups |-> Unstarted]
    /\ form = [f \in Forms |-> NoForm]
    /\ accounts = {}
    /\ plan = [p \in Signups |-> {}]
    /\ wrong = [p \in Signups |-> 0]

\* No account has the address or the user name.
Free(p) == \A a \in accounts : EmailOf[a] # EmailOf[p] /\ NameOf[a] # NameOf[p]

Removed(p) == [pending[p] EXCEPT !.stored = FALSE]

\* The other requests for the signups whose record changed, told by its
\* revision or its absence.
Outdated(g, changed) ==
    IF form[g].signup \in changed THEN [form[g] EXCEPT !.fresh = FALSE] ELSE form[g]

-----------------------------------------------------------------------------
(* startSignup.                                                            *)

\* Names are never given back, so that the two lookups are as good as one.
\* The password is hashed before the next step.
Start(f, p) ==
    /\ form[f] = NoForm
    /\ pending[p] = Unstarted
    /\ \A g \in Forms : form[g].signup # p
    /\ Free(p)
    /\ form' = [form EXCEPT ![f] = [NoForm EXCEPT !.step = "replace", !.signup = p]]
    /\ UNCHANGED <<mongo, pending, accounts, plan, wrong>>

Rivals(p) == {q \in Signups \ {p} : pending[q].stored /\ EmailOf[q] = EmailOf[p]}

\* Registration p takes the place of the removed ones.
Store(f, removed) ==
    LET p == form[f].signup IN
    /\ pending' = [q \in Signups |-> IF q = p THEN Started
                                     ELSE IF q \in removed THEN Removed(q) ELSE pending[q]]
    /\ form' = [g \in Forms |-> IF g = f THEN NoForm ELSE Outdated(g, removed)]
    /\ UNCHANGED <<mongo, accounts, plan, wrong>>

StoreJson(f) ==
    /\ ~mongo
    /\ form[f].step = "replace"
    /\ Store(f, Rivals(form[f].signup) \cup {q \in Signups : pending[q].expired})

\* replaceOne with upsert replaces the record of the address.
StoreReplace(f) ==
    /\ mongo
    /\ form[f].step \in {"replace", "again"}
    /\ Rivals(form[f].signup) # {}
    /\ Store(f, Rivals(form[f].signup))

\* It found no such record, so that it inserts one ...
StoreMissed(f) ==
    /\ mongo
    /\ form[f].step = "replace"
    /\ Rivals(form[f].signup) = {}
    /\ form' = [form EXCEPT ![f].step = "insert"]
    /\ UNCHANGED <<mongo, pending, accounts, plan, wrong>>

StoreInsert(f) ==
    /\ form[f].step = "insert"
    /\ Rivals(form[f].signup) = {}
    /\ Store(f, {})

\* ... unless the unique index has one by then, which is to be replaced ...
StoreDuplicate(f) ==
    /\ form[f].step = "insert"
    /\ Rivals(form[f].signup) # {}
    /\ form' = [form EXCEPT ![f].step = "again"]
    /\ UNCHANGED <<mongo, pending, accounts, plan, wrong>>

\* ... but may be gone: nothing is stored, and the client is answered as if.
StoreNothing(f) ==
    LET p == form[f].signup IN
    /\ form[f].step = "again"
    /\ Rivals(p) = {}
    /\ pending' = [pending EXCEPT ![p] = [Started EXCEPT !.stored = FALSE]]
    /\ form' = [form EXCEPT ![f] = NoForm]
    /\ UNCHANGED <<mongo, accounts, plan, wrong>>

-----------------------------------------------------------------------------
(* resendSignupCode and verifySignup.                                      *)

Known(p) == pending[p].code # 0

Resend(f, p) ==
    /\ form[f] = NoForm
    /\ Known(p)
    /\ form' = [form EXCEPT ![f] = [NoForm EXCEPT !.step = "resend", !.signup = p]]
    /\ UNCHANGED <<mongo, pending, accounts, plan, wrong>>

\* The code presented is one that was mailed, or none of them.
Verify(f, p, c) ==
    /\ form[f] = NoForm
    /\ Known(p)
    /\ c <= pending[p].code
    /\ form' = [form EXCEPT ![f] = [NoForm EXCEPT !.step = "verify", !.signup = p,
                                                  !.code = c]]
    /\ UNCHANGED <<mongo, pending, accounts, plan, wrong>>

ResendVerdict(r) ==
    IF r.expired THEN "expired"
    ELSE IF r.code > MaxResends \/ r.cooling THEN "blocked"
    ELSE "resent"

VerifyVerdict(r, c) ==
    IF r.expired THEN "expired"
    ELSE IF r.attempts >= MaxAttempts THEN "too_many_attempts"
    ELSE IF c # r.code THEN "wrong_code"
    ELSE "ok"

Verdict(f) ==
    LET r == pending[form[f].signup] IN
    IF form[f].step = "resend" THEN ResendVerdict(r) ELSE VerifyVerdict(r, form[f].code)

\* Mutant of Mutated: the record of an accepted code is kept.
MutatedKept(r, v) ==
    CASE v = "resent" -> [r EXCEPT !.code = @ + 1, !.attempts = 0,
                                   !.cooling = TRUE, !.expired = FALSE]
      [] v = "wrong_code" -> [r EXCEPT !.attempts = @ + 1]
      [] v \in {"blocked", "ok"} -> r
      [] OTHER -> [r EXCEPT !.stored = FALSE]

\* What each verdict makes of the record.
Mutated(r, v) ==
    CASE v = "resent" -> [r EXCEPT !.code = @ + 1, !.attempts = 0,
                                   !.cooling = TRUE, !.expired = FALSE]
      [] v = "wrong_code" -> [r EXCEPT !.attempts = @ + 1]
      [] v = "blocked" -> r
      [] OTHER -> [r EXCEPT !.stored = FALSE]

\* A code that was right has its account created next; all other requests end.
Mutate(f, v) ==
    LET p == form[f].signup IN
    /\ pending' = [pending EXCEPT ![p] = Mutated(@, v)]
    /\ wrong' = [wrong EXCEPT ![p] = IF v = "resent" THEN 0
                                     ELSE IF v = "wrong_code" THEN @ + 1 ELSE @]
    /\ form' = [g \in Forms |->
                  IF g # f THEN Outdated(g, {p})
                  ELSE IF v = "ok" THEN [NoForm EXCEPT !.step = "create", !.signup = p]
                  ELSE NoForm]
    /\ UNCHANGED <<mongo, accounts, plan>>

Mutating(f) == form[f].step \in {"resend", "verify"} /\ form[f].verdict = "none"

MutateAbsent(f) ==
    /\ Mutating(f)
    /\ ~pending[form[f].signup].stored
    /\ form' = [form EXCEPT ![f] = NoForm]
    /\ UNCHANGED <<mongo, pending, accounts, plan, wrong>>

MutateJson(f) ==
    /\ ~mongo
    /\ Mutating(f)
    /\ pending[form[f].signup].stored
    /\ Mutate(f, Verdict(f))

MutateRead(f) ==
    /\ mongo
    /\ Mutating(f)
    /\ pending[form[f].signup].stored
    /\ form' = [form EXCEPT ![f].verdict = Verdict(f), ![f].fresh = TRUE]
    /\ UNCHANGED <<mongo, pending, accounts, plan, wrong>>

\* Mutant of Matches: the record is matched by its id alone.
MatchesById(f) == form[f].verdict # "none" /\ pending[form[f].signup].stored

Matches(f) == form[f].verdict # "none" /\ form[f].fresh

MutateWrite(f) ==
    /\ Matches(f)
    /\ Mutate(f, form[f].verdict)

MutateMissed(f) ==
    /\ form[f].verdict # "none"
    /\ ~Matches(f)
    /\ form' = [form EXCEPT ![f].verdict = "none"]
    /\ UNCHANGED <<mongo, pending, accounts, plan, wrong>>

-----------------------------------------------------------------------------
(* createUser and the subscription.                                        *)

\* Mutant of CreateUser: the lookups of startSignup are trusted.
CreateUserUnchecked(f) ==
    /\ form[f].step = "create"
    /\ accounts' = accounts \cup {form[f].signup}
    /\ form' = [form EXCEPT ![f].step = "subscribe"]
    /\ UNCHANGED <<mongo, pending, plan, wrong>>

\* The index of the addresses and that of the names decide, in the update that
\* adds the account.
CreateUser(f) ==
    /\ form[f].step = "create"
    /\ Free(form[f].signup)
    /\ accounts' = accounts \cup {form[f].signup}
    /\ form' = [form EXCEPT ![f].step = "subscribe"]
    /\ UNCHANGED <<mongo, pending, plan, wrong>>

CreateConflict(f) ==
    /\ form[f].step = "create"
    /\ ~Free(form[f].signup)
    /\ form' = [form EXCEPT ![f] = NoForm]
    /\ UNCHANGED <<mongo, pending, accounts, plan, wrong>>

\* A login whose password was right sees to the subscription, too.
Login(f, p) ==
    /\ form[f] = NoForm
    /\ p \in accounts
    /\ form' = [form EXCEPT ![f] = [NoForm EXCEPT !.step = "subscribe", !.signup = p]]
    /\ UNCHANGED <<mongo, pending, accounts, plan, wrong>>

\* ensureSubscription: on MongoDB the lookup finds none ...
SubscribeMissed(f) ==
    /\ mongo
    /\ form[f].step = "subscribe"
    /\ plan[form[f].signup] = {}
    /\ form' = [form EXCEPT ![f].step = "add"]
    /\ UNCHANGED <<mongo, pending, accounts, plan, wrong>>

AddStep == IF mongo THEN "add" ELSE "subscribe"

Subscribed(f) ==
    /\ plan' = [plan EXCEPT ![form[f].signup] = @ \cup {"requested"}]
    /\ form' = [form EXCEPT ![f] = NoForm]
    /\ UNCHANGED <<mongo, pending, accounts, wrong>>

\* Mutant of SubscribeInsert: no unique index on the active subscription.
SubscribeInsertAnyway(f) ==
    /\ form[f].step = AddStep
    /\ mongo \/ plan[form[f].signup] = {}
    /\ Subscribed(f)

\* ... and one is added, which the unique index allows if there is still none,
\* and on the JSON file the update that looks for it.
SubscribeInsert(f) ==
    /\ form[f].step = AddStep
    /\ plan[form[f].signup] = {}
    /\ Subscribed(f)

\* The one there is, found by the lookup or after the duplicate was refused, is
\* kept.  The session that is opened next is that of RefreshSessions.
SubscribeFound(f) ==
    /\ form[f].step \in {"subscribe", "add"}
    /\ plan[form[f].signup] # {}
    /\ form' = [form EXCEPT ![f] = NoForm]
    /\ UNCHANGED <<mongo, pending, accounts, plan, wrong>>

\* The request needs a token, which no account has before its subscription.
\* An active one is updated.
ChangePlan(p) ==
    /\ \E old \in plan[p] :
          plan' = [plan EXCEPT ![p] = (@ \ {old}) \cup {"changed"}]
    /\ UNCHANGED <<mongo, pending, form, accounts, wrong>>

-----------------------------------------------------------------------------
Expire(p) ==
    /\ pending[p].stored
    /\ pending' = [pending EXCEPT ![p].expired = TRUE]
    /\ UNCHANGED <<mongo, form, accounts, plan, wrong>>

CoolDown(p) ==
    /\ pending[p].stored
    /\ pending' = [pending EXCEPT ![p].cooling = FALSE]
    /\ UNCHANGED <<mongo, form, accounts, plan, wrong>>

\* The TTL index, or the deletion that precedes each start.
Purge(p) ==
    /\ mongo
    /\ pending[p].stored /\ pending[p].expired
    /\ pending' = [pending EXCEPT ![p] = Removed(p)]
    /\ form' = [g \in Forms |-> Outdated(g, {p})]
    /\ UNCHANGED <<mongo, accounts, plan, wrong>>

\* A request ends with an error: the store, the mail server or the process
\* failed, or mutatePendingSignup gave up after eight attempts.
FormFail(f) ==
    /\ form[f] # NoForm
    /\ form' = [form EXCEPT ![f] = NoForm]
    /\ UNCHANGED <<mongo, pending, accounts, plan, wrong>>

SignupNext ==
    \/ \E f \in Forms, p \in Signups :
        \/ Start(f, p) \/ Resend(f, p) \/ Login(f, p)
        \/ \E c \in {0} \cup Codes : Verify(f, p, c)
    \/ \E f \in Forms :
        \/ StoreJson(f) \/ StoreReplace(f) \/ StoreMissed(f) \/ StoreInsert(f)
        \/ StoreDuplicate(f) \/ StoreNothing(f)
        \/ MutateAbsent(f) \/ MutateJson(f) \/ MutateRead(f) \/ MutateWrite(f)
        \/ MutateMissed(f)
        \/ CreateUser(f) \/ CreateConflict(f)
        \/ SubscribeMissed(f) \/ SubscribeInsert(f) \/ SubscribeFound(f)
        \/ FormFail(f)
    \/ \E p \in Signups :
        \/ ChangePlan(p)
        \/ Expire(p) \/ CoolDown(p) \/ Purge(p)

SignupSpec == SignupInit /\ [][SignupNext]_signupVars

-----------------------------------------------------------------------------
(* Properties.                                                             *)

\* Codes are attempt-limited (src/README.md:114): between one code of a signup
\* and the next, no more than MaxAttempts wrong guesses are answered, however
\* many are made at the same time and whichever servers compare them.
GuessesBounded == \A p \in Signups : wrong[p] <= MaxAttempts

Accepts(f) == form[f].step = "verify" /\ form'[f].step = "create"

\* A code is accepted only if it is the last one issued, even if another was
\* issued while the codes were compared, and it is spent by being accepted: of
\* verifications that overlap one alone goes on to create the account.
SpentByLatestCode ==
    [][\A f \in Forms : Accepts(f) =>
          LET p == form[f].signup IN
          /\ pending[p].stored /\ ~pending'[p].stored
          /\ form[f].code = pending[p].code]_signupVars

\* No two accounts have one address or one user name, although signups that
\* ask for the same start and are verified side by side.
UniqueIdentity ==
    \A a, b \in accounts :
        EmailOf[a] = EmailOf[b] \/ NameOf[a] = NameOf[b] => a = b

\* Subscriptions are the "authoritative plan state" (src/README.md:72): once an
\* account has changed its plan, that is what its one active subscription is
\* for, although signups and logins that had found none insert one only now.
ChangedPlanStands ==
    [][\A p \in Signups :
          "changed" \in plan[p] => plan'[p] = {"changed"}]_signupVars
=============================================================================
