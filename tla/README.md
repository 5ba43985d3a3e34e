# TLA+ models of the Quicker Portal desktop backend

The backend is a Node.js HTTP service. MCP clients call tools; a tool call
becomes a job that the user's running desktop claims, executes and completes.
Around this sit accounts, login sessions, OAuth grants and a second MCP server
for editing code through an IDE agent. All of it runs on one of two stores: JSON
files, for a single process, or MongoDB, shared by several processes. The two
give the same operations different atomicity, and most of what is hard about
this code lies there.

This directory holds the models of its parts, the TLC configurations that check
them on small instances, and proofs of their main properties for every value of
the constants. `PROJECT.json` lists the runs, the source lines each definition
stands for, the hazards of the code and the properties that cover them.

## How to read it

| module | is | checked by |
|---|---|---|
| `JobLifecycle` | what the job broker promises, without stores or clocks | refinement from `DesktopJobs` |
| `DesktopJobStore` | job records and the operations both stores share; the promises | the next two |
| `DesktopJobs` | the broker on its JSON file | `MCDesktopJobs.cfg`, `MCDesktopPoll.cfg` |
| `DesktopJobsMongo` | the broker on MongoDB | `MCDesktopJobsMongo.cfg`, `MCDesktopLease.cfg` |
| `DesktopJobStoreProofs` | lemmas on the shared operations | tlapm |
| `DesktopJobsProofs` | safety of the JSON broker, that it implements `JobLifecycle`, the pending bound | tlapm |
| `DesktopJobsMongoProofs` | safety of the MongoDB broker | tlapm |
| `TokenChain` | what rotating refresh tokens promise | refinement from the next two |
| `RefreshSessions` | the sessions of a user, on either store | `MCRefreshSessions.cfg` |
| `OAuthGrants` | the authorization of an MCP client, on either store | `MCOAuthGrants.cfg`, `MCOAuthRevocation.cfg` |
| `RefreshSessionsProofs`, `OAuthGrantsProofs` | safety of the two, and that they implement `TokenChain` | tlapm |
| `Accounts` | an account: login, lockout, hash upgrade, change of password, logout | `MCAccounts.cfg`, `MCAccountSessions.cfg`, `MCAccountUpgrade.cfg` |
| `Signup` | how an account and its subscription come to be | `MCAccounts.cfg` |
| `AccountsProofs` | safety of both | tlapm |
| `AtomicDocument` | what the JSON store promises of a document | refinement from `JsonStore` |
| `JsonStore` | one JSON document: file, copy in memory, lock, crashes | `MCAccounts.cfg` |
| `JsonStoreProofs` | safety of `JsonStore`, and that it implements `AtomicDocument` | tlapm |
| `AgentRequests` | what a request to the desktop app promises | refinement from `AgentHub` |
| `AgentHub` | connections, open projects, and calls of tools that find and ask them | `MCIde.cfg` |
| `WorkspaceFiles` | reading and changing the files of a project, on `AgentRequests` | `MCIde.cfg`, `MCIdeOverwrite.cfg` |
| `VerificationGate` | commands, changes and `finish_task`, on `AgentRequests` | `MCIde.cfg` |
| `IdeProofs` | safety of the three, and that they implement `AgentRequests` | tlapm |

A definition named `...SweptRequeues`, `AfterRevoking` and the like, commented as
a mutant of another, is not part of a specification. It is a plausible bug that
the properties were tried against: put in place of the definition it varies, it
makes the property `PROJECT.json` pairs it with fail under the same
configuration.

Commands: `tlc -config MCDesktopJobs.cfg MCDesktopJobs`, `tlapm DesktopJobsProofs.tla`.

## The components

**Desktop job broker** (`modules/mcp/broker.js`, limits in `modules/mcp/protocol.js`,
indexes in `lib/mongo.js`). State: the job records - status, owner, environment,
three deadlines, the claim key, the hash of the lease, the hash of the token that
completed it, the result. Operations: submit, inline wait, claim (with the sweep
of all deadlines), complete, poll, prune. It interacts with the MCP front end
(submit, wait, poll), with the desktops (claim, complete) and with wake-up
signals, which are hints only. Hard: a claim whose answer was lost is repeated;
completions are repeated and late; deadlines are applied only by somebody's
claim; on MongoDB a claim is four operations and a submission two. Correct when
a job is executed under one claim, its outcome is one and the same for
everybody, its result is there for whoever waits or polls for it, and every job ends.

**Desktop presence and wake signals** (`broker.js`, `modules/mcp/signals.js`). State: the
last heartbeat per desktop, a version and the listeners per key, both in memory.
Hard: eviction of versions and the cap on listeners lose notifications; a
restart forgets presence. Correct when no waiter sleeps past its own timeout and
a running desktop is reported as such after its next heartbeat.

**Login sessions** (`modules/auth/session-store.js`, `lib/refresh-replay.js`). State: a
session with its current refresh hash, up to ten earlier hashes, a sealed answer
for retries, expiry, revocation. Operations: create, rotate, replay, detect
reuse, logout, revoke all, prune. Hard: two refreshes of one token at once, a
retry whose first answer was lost, and four separate operations on MongoDB.
Correct when a token has one successor, theft ends the session, and a mere
retry does not.

**Accounts** (`modules/auth/auth-service.js`, `modules/users/user-repo.js`,
`modules/auth/pending-signup-store.js`, `modules/plans/subscription-store.js`). State: the
user record, pending signups, the subscription. Operations: signup, resend,
verification, login, lockout, hash upgrade, change of password and plan, logout,
logout everywhere. Calls the session store. Hard: every request awaits a password
hash between reading the account and writing it; guesses at a code overlap; two
people want one address. Correct when no failed login or guess is uncounted, no
stale write brings a password or a plan back, a change of password ends the
sessions opened before, and no identity is given twice.

**OAuth grants and MCP connections** (`modules/mcp/oauth.js`, `oauth-store.js`,
`connections.js`, `devops-grant.js`). State: clients, authorizations, codes, grants
with a revision, connections. Hard: compare-and-swap on a revision that a mass
revocation does not increase; two files written by one step; a revoked
connection enabled again under its old id. Correct when a code is exchanged
once, a refresh token has one successor, and a revoked grant stays revoked.

**JSON document store** (`lib/json-store.js`). State: the file, its published copy,
a queue of updates. Hard: a crash between the rename and the publication; errors
in mutators; readers that share one load. Correct when updates take effect one at
a time, whole and for good, and nothing is shown that a crash takes back. The
models of the other components take exactly this for granted.

**IDE agent bridge** (`modules/ide-codewriter/bridge`, `workspace/registry.js`). State:
agent connections, outstanding requests with timers, workspaces. Hard: late
answers, an agent replaced while its requests are pending. Correct when each
request is settled once, by its own answer, its timeout or its disconnection.

**IDE write path** (`mcp/tools/write-tools.js`, `mcp/guards.js`, `mcp/session.js`,
`workspace/checkpoint.js`, `workspace/content-cache.js`). State: a ledger of what a
session has read, cached revisions, a baseline checkpoint. Hard: a user edits the
same files; an edit of part of a file is noted as a full read; writes during the
baseline. Correct when no unseen content is overwritten and the baseline
precedes the first write.

**IDE verification gate** (`workspace/verification.js`, `mcp/tools/command-tools.js`).
State: dirty files and the last runs of each command. Hard: results collected
late, runs that began before a write. Correct when a workspace called verified was
verified after its last write.

**The rest** keeps no state that two actors share: MCP front end, tool catalog
and policy, HTTP core, tokens and keys (cryptography; the signing key is created
once), analytics, mail, audit, migration scripts. They are listed in
`PROJECT.json` with the reason each is left out.

## The job broker

`job[j]` is the stored record; jobs are numbered in order of `createdAt`.
`passed` says which deadlines are past: a job has one deadline at a time, named
by its status (`expiresAt` queued, `leaseExpiresAt` leased, `reconcileExpiresAt`
outcome unknown), so time is the action `Elapse`, which may happen at any moment
and any order. A claim id and the lease token derived from it are one value; the
claims in `Claims \ Keyed` carry no claim id and get a random token.

The network is `granted`: an envelope that was sent may be lost, delayed or
acted on more than once, so a desktop in `granted[j]` may complete the job at any
later time, repeatedly and with either outcome, or never. `waiter[j]` is the inline
wait that submitted the job (`executeTool`, `waitForDesktopJob`), `acked` and
`reported` are what desktops and polls were answered.

| action | code |
|---|---|
| `Enqueue`; `CountPending`, `InsertJob` | `enqueueDesktopToolCall` on JSON; on MongoDB |
| `ClaimArrive`, `ClaimReplay`, `ClaimJob`, `ClaimNothing` | `claimDesktopJobs`, one atomic update |
| `ClaimSweep`, `ClaimLease`, `ClaimSecure`, `ClaimUnsecured`, `ClaimFail` | the same on MongoDB, one operation each |
| `Complete`, `CompleteAgain` | `completeDesktopJob` |
| `WaitRead`, `WaitPurge`, `WaitAnswer`, `WaitFail`, `WaitDeadline`, `WaitRemoved`; `PurgeUnconfirmed` on MongoDB | `waitForDesktopJob` |
| `Poll` | `getDesktopOperation` |
| `Dropped` (within each JSON update), `Retire` | `prune`; the TTL index |
| `Restart` | a process that stops |

On JSON the pruning and the sweep are part of the update they precede, as in the
code, and a claim takes its clock (`seen`) when it arrives, before its turn at the
file. On MongoDB the three sweep updates are one step, because they touch
disjoint records, and the guarded update of a completion is one step because its
filter repeats all that was read.

An inline wait reads a terminal status (`WaitRead`), purges the payload in a later
update (`WaitPurge`) and only then answers with the copy it holds (`WaitAnswer`). A
process that stops, or on MongoDB an update that is applied but reported as failed
(`PurgeUnconfirmed`), ends such a call between the two, and the result is gone: a
completed job whose caller got nothing and cannot ask again is a state of the model, as
it is of the code. `ResultAvailable` therefore promises the result to the wait until it
has purged it, and to a caller that was told to poll for good: nothing else - a
completion, a sweep, a prune, a poll, another server - takes it away.

What is stated: `AtMostOneClaim`, `DeliveredLeaseIsHonoured`, `LapsedNeverDelivered`,
`OneOutcome`, `ResultAvailable`, `ClaimIdIsSpent`, `PendingBound`, `JobEventuallySettles`,
`UnreconciledMeansWindowEnded`; each is explained where it is defined, and
`ImplementsLifecycle` says that each job is offered once, accepted once and never
offered again.

### Runs

* `json_broker` - two jobs of one user, a claim that can be retried and one that
  cannot, `MaxPending` 2, `KeepTerminal` 1. Two jobs are the least that let a claim
  id meet a second job, a sweep move several, and a prune drop one by count;
  with `KeepTerminal` 1 it does as soon as both have ended.
* `mongo_broker` - one job, two servers, three claims: c1 may reach both servers
  under one claim id, c3 competes for the job, c2 belongs to a desktop in another
  environment, so it sweeps and leases nothing. One submission at a time is
  between its count and its insert. With one job the records of other jobs are
  not there to be confused, which the JSON run covers; what is at stake here is
  the interleaving of operations on one record.
* `poll`, `lease` - the two disagreements below.

The claim ids that can be retried are one of each configuration; a second one
behaves like c2 until it is retried. `AtMostOneClaim` and the rest are proved for
any number on either store; `OneOutcome` and `ResultAvailable` are checked on JSON and
proved on both.

### Fairness

Only `mongo_broker` checks liveness. `MongoFairSpec` assumes that deadlines pass
(`Elapse`, weak) and that the desktops in `Polling` keep polling: their request
arrives again (weak), reaches its sweep if it gets the chance again and again
(strong, since an operation of a claim may fail each time, but not for ever), and
continues from there (weak). This is what the desktop's loop does. Nothing is
assumed of the desktop that leased a job, of the process that waits for it, or of
the claim that could lease it: the property is that any polling desktop, here one
that may not lease the job, makes every job end.

## Login sessions

`sess[s]` is the session record, `sent` the tokens clients hold, `req[r]` a refresh
in progress on MongoDB. On JSON a refresh is one step (`JsonRotate`, `JsonReplay`,
`JsonReuse`, `JsonInvalid`); on MongoDB it finds the session (`RefreshFound`,
`RefreshMissed`, `RefreshEnded`), swaps it (`RefreshSwap`) or is overtaken
(`RefreshOvertaken`), looks for the session that remembers the token
(`RefreshReplay`, `RefreshReused`, `RefreshInvalid`), and revokes it
(`RefreshRevoke`). `GraceEnds` closes the retry window: its seconds (`QP_REFRESH_RETRY_GRACE_SECONDS`) pass, or the
key that sealed the answer changes. The variable `store` chooses the store once,
so one run covers both.

Run `sessions`: two sessions, two clients, two refreshes at once, four tokens and
`KeepPrevious` 2 instead of ten. Four tokens let a session rotate three times, so
that it forgets its first one; two overlapping refreshes are enough for every
pair of operations to interleave. Sessions, clients and requests are symmetric.
No liveness is stated: a client may stop at any time.

`OneSuccessor`: all answers given for one token carry the same next one.
`ReuseEndsSession`: a client told of reuse can rely on the session being over; a token
rotated out so long ago that it is forgotten is not told apart from an unknown one.
`DuplicateKeepsSession`: within the window, one client that repeats itself never
ends a session for reuse. `ImplementsTokenChain`: the sessions are chains whose
tokens are exchanged once and which never start again once ended.

## Accounts

A request goes from step to step as the code awaits: `login` finds the user,
verifies the password on the hash it found, clears the failures, upgrades the
hash when its cost is out of date, and opens a session; `changePassword` verifies,
writes and revokes; a wrong password counts a failure. `Update` is `updateUser`: one
step on JSON, and on MongoDB a read (`UpdateRead`), then a replacement of the whole
record if its revision has not moved (`UpdateSwap`), or another attempt
(`UpdateMissed`). A request that gives up after eight attempts is `RequestFail`, which
also stands for errors of the store and a process that stops.

Instead of a revision number the model keeps the set `unmoved` of the requests
whose copy is of the present revision: every write empties it. A password is the
number of the change that chose it; `written` is the one the last change wrote,
`finished` the changes that were acknowledged, `missed` the wrong passwords
answered since the last success, which the record's own counter is compared
with. `late` marks a login that was under way when a change revoked the sessions.
The account is always active and its email verified, and the client of a request
plays no part.

**Signup.** `pending[p]` is the record of registration p, `form[f]` the request being
served. `startSignup` looks whether address and name are free (`Start`; two lookups,
one step, since neither is ever given back) and replaces the pending record of
the address: one update on JSON (`StoreJson`); on MongoDB an upsert that matches
(`StoreReplace`), or misses and inserts (`StoreMissed`, `StoreInsert`) unless the
unique index finds another (`StoreDuplicate`, then `StoreReplace` again or
`StoreNothing`). `resendSignupCode` and `verifySignup` decide on the record they
read and write it back or delete it if its revision has not moved (`MutateRead`,
`MutateWrite`, `MutateMissed`; `MutateJson`). After a right code the account is
created (`CreateUser`, `CreateConflict`), then the subscription, as at the end of
every login (`Login`): on MongoDB it is looked up (`SubscribeMissed`, `SubscribeFound`) and
in a second operation inserted (`SubscribeInsert`), which the unique index of active
subscriptions refuses if there is one by then (`SubscribeFound`); on JSON both are one
update. `ChangePlan` may come in between: `plan[p]` is the set of the plans of the active
subscriptions of the account, and `ChangedPlanStands` says that it stays the changed plan
alone, whoever looked before the change and inserts after it. The upsert of `ChangePlan`
never inserts, because its request needs a token and no account has one before its
subscription. Codes are numbered as they are issued. The
development setup's fixed code is left out: with it all codes are equal. `FormFail`
is a request that ends anywhere, `Purge` the expiry index and the deletion in
`replacePendingSignup`.

Two things the model shows without a property of their own. A failure between the
acceptance of a code and the creation of the account loses the signup: the person
starts again. And a start that collides in the upsert stores nothing if the
winner's record is gone by its second attempt, although its client is told that
a code was sent; the comment at `pending-signup-store.js:24` says the latest request
replaces the winner.

**JsonStore.** The document is the set of the updates in it; `disk` is the file, `cache`
and `loaded` the state in memory. `Queue` and `Acquire` are `withStoreLock` (the order of
the chain is left open), `Prepare` the mutator on its clone, `Rename` `atomicWrite` - the
temporary file has a name of its own and is never read, so that only the rename
shows -, `Publish` the rest of `update`; `Reject` is any failure before the rename.
`ReadLoaded`, `ReadWaits`, `Load` and `LoadFails` are `read`. `Crash` may come at any moment.
`ImplementsDocument`: all of it behaves as `AtomicDocument`, where an update takes
effect in one step, or is refused in one and never takes effect. An update that was
renamed but not published takes effect by the crash, its caller unanswered.
`AnswersStand`: what callers were told and shown is in the file. The comment at
`json-store.js:5` excludes power loss and other processes, and so does the model.
`AppendOnlyLog` is left out: audit and analytics append to it, nothing else reads it.

Run `accounts`: a behaviour follows one of three things (`focus`), since they share no
variable. On the account, two requests at a time, two sessions, two changes of the
password, lockout after two failures: two requests are the least for an update to
be overtaken, and the second change lets an old one finish after a newer one;
half of the initial states have a hash that needs an upgrade. On signup, two
registrations for one address and one name, two requests at a time, one resend and
one attempt: a guess at the limit, a code that was replaced and a rival for the
identity are each there. On the store, two updates and two readers of one document
and any number of crashes. No liveness is stated: clients and processes may stop.

## OAuth grants

`conn`, `auth`, `code` and `grant` are the four kinds of record. A pair of access and
refresh token is one number; `sent[g]` are those the client of grant g was sent, any
of which may be presented at any time. An approval is three steps as the code
awaits (`ResumeAuthorization`, `CheckConnection`, `CreateCode`); a code is read, then
consumed with the grant in one transaction or update (`ReadCode`, `CreateGrant`).
`mutateOAuthGrant` reads (`BeginMutation`, `ReadAgain`) and writes if the revision has
not moved (`Write`, which makes the copies of others useless); on JSON it is one
step. On it stand the refresh (`Rotate`, `AnswerReplay`, `DetectReuse`), the client's
revocation (`RevokeToken`) and the touch of an admitted call (`Admit`). The user's
revocation of a client goes around it. `window` is the retry window of the last
rotation and then the expiry of the grant. A denial is answered even if an approval
was completed meanwhile, as in the code.

Run `oauth`: one connection, one authorization, two codes and two grants, so that a
second grant of one authorization could appear; two requests at once; four pairs
of tokens with two remembered hashes and one older access token kept, so that both
are outgrown and a grant can remember more than its last rotation; one access token
expires; one caller besides the one that tells
nothing. `OneGrantPerAuthorization`, `OneSuccessor`, `SentTokensHonoured`,
`DuplicateKeepsGrant`, `RevocationIsFinal` and `ImplementsTokenChain` are explained where
they are defined. `oauth_revocation` is the disagreement below.

A change of the signing key inside the window makes a verified retry count as
reuse, which `DuplicateKeepsGrant` leaves out (`rekeyed`). On MongoDB two
bootstraps that coincide may create the connection of a kind twice where no index
forbids it; the model creates one. Not modelled: the client registry with its count
and purge, scopes, tool policy and execution mode, static keys, clients without
`offline_access`, and pages.

## The IDE subsystem

Three modules on one abstraction. `AgentRequests` says what a tool may rely on when it
asks the desktop app: a request is settled once, is answered only if the work was
done, and when it failed nothing is known - the desktop may still do the work.
`AgentHub` has sockets, timers, heartbeats and is shown to implement it (`RpcSpec`);
`WorkspaceFiles` and `VerificationGate` use it in the place of the hub. A request is
made once. Reads that share one request in flight are separate requests here.

**AgentHub.** `agent[a]` is a connection, perhaps half-open (`peer` FALSE): what is sent may
arrive, nothing comes back. `Sweep` is the heartbeat, `CloseAgent` the handler of a
closed socket, which fails what is pending and closes the projects of the
connection (`OpenProject`, `StartIndex`, `FinishIndex`, `CloseProject` are the frames of the
desktop). A call of a tool locates its project (`Locate`), waits for the index
(`AwaitIndex`), makes sure that the desktop answers (stage `ping`), may prepare and then
does its work; `Answer`, `Timeout` and the closing of the socket move it on. Each tool
is an action that differs in what it needs. A timed-out request may still be done
(`DesktopDoes`). Nothing looks at the project again between what prepares and the
work, so that `GoneIsNotAsked` is about the first thing asked.

**WorkspaceFiles.** `live` are the files of the desktop with the buffers of its editor,
`index` the revisions the backend knows, `cached` the content cache, `ledger` what each
client was shown. A text is its own revision. `call[k]` is a call of a tool between its
awaits: checkpoint, fetch of the old contents, the request itself. The objects of the
index are shared by reference in the code; `linked` says which entries a call holds
are still those of the index, so that `Refreshed` and `Rebased` change them in place as
`fetchFiles` does. `UserChanges` is a user who edits or saves meanwhile, `FileChanged`,
`EditorState`, `ResetIndex` and `CompleteIndex` what the backend learns of it, late. A read
begins on a complete index; a tool that writes pings the desktop after it waited for
the index, so that it may validate on one that is being built anew (`MayBegin`).

`UnseenIsKept`: whatever happens in between, `write_files` replaces a text only if its
client was shown it whole or made it, provided the request quotes the revision the
client quoted. The proviso is what the run `ide_overwrite` is about. `told` counts what
an edit or a move of the client's own produced as shown, as `noteWrite` does, so that the
property does not catch an edit that licenses a rewrite of parts the client never saw.
`OneBaseline`: one call makes the baseline checkpoint, and that call changes nothing
before. Another that finds it pending goes on at once and may overwrite files before
it exists, although `checkpoint.js:13` says it has to exist before; deletions and moves
take no baseline. `delete_files` sends no revision, so a file saved meanwhile is
deleted unseen. A moved entry keeps its old revision until the next event. All of
this is in the model.

**VerificationGate.** The gate compares when a run was asked for with when the backend
learned of the last write, in milliseconds; the model has beside it what really
happened on the desktop (`disk`, `changed`, and `saw`, the files a run saw). `reported` is
the last change the backend knows of, `proven` the latest state of the files a command
is known to pass on. `FinishedMeansVerified`: `finish_task` succeeds only if every required
command passed on files that had every reported change. `NoRunLeftBehind`: not while a
run is still waited for. The tool's description (`command-tools.js:505`) promises more than
the gate can keep, and the property names what is left out: a write that timed out
marks nothing dirty; a command that an indexing made required while nothing was
unverified is not asked for (`unasked`); a reconnected project begins with a clean
gate. A late poll of an older run replaces the result of a newer one, which can
only ask for more runs. (The run `ide` has one run of a command; several that overlap
are covered by the theorem `GateFinishesVerified` alone.)

### Run and fairness

`ide`: each behaviour follows one of the three (`focus`), which meet only in
`AgentRequests`. Hub: connections and calls, three together (`MaxParties`), two workspace
ids, one project, so that a project is reopened under another id and by another
connection. Files: two calls of any kinds in order (`Offered` leaves out pairs that only
repeat others in another order), two paths of which one is `.gitignore`, two texts,
one change by the user or of the index (`MaxEdits`): enough for a text to change behind
the index while a call is under way and another to interfere. Gate: one command, one
run, one change, two milliseconds, so that a run and a change fall in the same or in
different ones, and the files change before, during or after the run.
`ide_overwrite` uses the same instance.

Only the hub has liveness. `HubFairness` assumes of `Due` - calls that go on, timers of
requests, and the close event of a socket that was terminated - that some of it
happens as long as some can, and the same of the heartbeat's interval: both run on
timers of the server. Each of `Due` happens a bounded number of times, so one
condition serves all. Nothing is assumed of the desktop, which may never answer.
`CallsEnd` and `ZombiesGo` say "time and again": with calls and connections bounded and
never repeated, that means for good.

## Where the code and its promises part

Each is a run that checks one statement the repository makes and finds it
violated.

* `poll` - a poll of a leased job whose lease is over, before any claim has swept
  it, answers `expired_unreconciled`: `broker.js:617` reads a reconciliation
  deadline that is not set yet as one long past. The window has not begun.
* `lease` - on MongoDB a claim that fails between leasing a job and recording its
  lease hash is answered on its retry with an envelope whose completion the
  broker refuses.
* `account_sessions` - a login that verified the old password opens its session
  after a change revoked "every session". `OnlyLateLoginsSurvive` is what does
  hold: only a login then under way can.
* `account_upgrade` - a login that upgrades a hash writes the hash of the old
  password over a password changed meanwhile. `PasswordStands` is what does hold:
  an account whose hash is up to date keeps its changed password.
* `oauth_revocation` - on MongoDB a user's revocation of a client leaves the revision
  of its grants alone, so a refresh or touch that read a grant before writes it back
  alive. `RevocationIsFinal` is what does hold: all other revocations stand, and on
  JSON this one too.
* `ide_overwrite` - the second check of `write_files` compares the index with the
  object the fetch before it has just brought up to date, so it never fails and the
  request quotes a revision the client never saw: a user's edit is overwritten.
  It takes a file that has to be fetched: one whose content is no longer in the cache,
  or whose entry is marked dirty.

## What is proved

By TLAPS, for every value of the constants, from the assumptions named in the
modules (`DesktopJobStoreAssumption`, `DesktopJobsAssumption`, `AccountsAssumption`
and their like). They say that bounds are natural numbers, that marks such as `None`
are none of the values they mark the absence of, that a request of the IDE subsystem
has a name for each of its steps, and that sets from which a call takes a value
before it has one (clients, texts, agents, projects, commands) are not empty. Changes
in the gate are finitely many, because they are counted there. `KeepPrevious` is
above one: a session remembers the token before the one it rotates (ten in the code).

**`DesktopJobsProofs`.** `TypeCorrect` first. The safety theorems rest on the
inductive invariant `IInv`: types; a job not yet submitted has the empty record
(`Unborn`); the record, its lease hash and the claims it was sent to agree
(`Delivered`, per status); and a random token in flight was never sent an
envelope (`FreshClaims`), without which a claim that is not retryable could be
granted twice. `OneClaimPerJob`, `LeaseHonoured` and `LapsedUndelivered` follow.
`EveryoneToldOneOutcome` and `ResultKeptForPoll` need a second invariant,
`ToldOfAll`: a result not yet purged by its own wait is stored, and everything anybody was told of a job is true of its record, or the
record is gone. `SpentClaimIds` is inductive on top of `IInv`. All lean on one
lemma pattern: pruning and sweeping move a record along its life only.

`BrokerImplementsLifecycle`: initial states map to initial
states and every step of the broker, however many jobs its sweep and prune move,
is a step or a stutter of `JobLifecycle`. `PendingWithinBound`: on JSON, no user
exceeds the pending limit; by cardinality, since only a submission adds a pending
job and its guard is evaluated in the same update.

**`DesktopJobsMongoProofs`.** The promises that survive MongoDB's interleavings:
`MongoOneClaimPerJob`, `MongoLapsedUndelivered`, `MongoOneOutcome`, `MongoResultKeptForPoll`, and types.
The inductive invariant `MInv` relates a record to the requests that are between two
of their operations (`Owned`: an offered job was sent to nobody and no request has
leased it; an accepted one belongs to one claim). `DeliveredLeaseIsHonoured` is not among
them: the run `lease` refutes it. `DesktopJobStoreProofs` has what both brokers need of
pruning, sweeping and completing one record.

**`AccountsProofs`.** `TypeCorrect`. `EveryFailureCounts`: the key is `FreshCopies`, a copy
whose revision did not move equals the record, so that an update on either store
is an update of the present record. `ChangedPasswordStands` adds that no request
is about to upgrade (`NoUpgrade`). `OnlyLateLogins` adds `Ordered` - each change in
progress has a number of its own, not yet finished, so writing it makes the claim
about finished changes vacuous until its revocation - and `Survivors`, which
extends the property from open sessions to the logins that may open one.

Of signup: `GuessesAreBounded`, `LatestCodeIsSpent`, `IdentitiesAreUnique`, `PlanStands`,
for any registrations, limits and requests. The key is again that a copy whose
revision did not move is the record, and that the record's count of attempts is
the number of wrong guesses answered. `PlanStands` needs that an account has at most one
active subscription (`OnePlan`); and the logins of an account never race the start of
its own signup, because it was issued a code before (`Registered`).

**`RefreshSessionsProofs`.** `TokensHaveOneSuccessor` and `SessionsImplementTokenChain`, on either
store. The invariant `RInv`: what a request generated and has not used belongs to
nobody, a token that a session accepts was never exchanged, and the sealed answer of a
session is what its last token was exchanged for. `ReuseEndsTheSession` and
`DuplicatesKeepTheSession` need more (`UInv`), because on MongoDB a request finds its
grounds for a revocation in one operation and acts on them in another: a session
remembers only tokens that were exchanged, no two sessions the same, and its last
rotation is the newest; and the grounds of a request (`Refused`) stay true while it waits,
since a rotation that overtakes it only adds a token to those remembered.

**`OAuthGrantsProofs`.** Every property of the run `oauth`, on either store:
`AuthorizationYieldsOneGrant`, `RefreshesHaveOneSuccessor`, `NewestTokensHonoured`,
`RevocationStaysFinal`, `DuplicatesKeepGrant`, `GrantsImplementTokenChain`, types. The invariant
`OInv`: a code that the client knows is the only one of an authorization that is over, a
stored grant comes of such a code, its newest unexpired tokens are those on record; and
the copy that a mutation holds is the grant or differs from it by a user's revocation
alone (`CopyOf`), which is exactly what the run `oauth_revocation` makes use of.

**`IdeProofs`.** One invariant for each part, and for the three side by side as `MCIde` runs
them (`IdeTypeCorrect`, `IdeKeepsRequests`).
`GateInv` is behind `GateFinishesVerified` and `NoRunIsLeftBehind`: a run whose start is later than
the last write saw everything reported (`RunsSee`), so a result that counts, or a gate
without an unverified write, vouches for every reported change (`Vouched`); the changes on the
desktop are counted by the requests that made them (`DiskCounted`); and a run that is
waited for is among the active ones or was cancelled with an answer (`RunsAsked`).
`HubInv` is behind `ProjectsAreServed`, `GoneProjectsAreNotAsked` and `HubKeepsRequests`: a call
between its requests waits for exactly one, has asked nothing further, and holds the
connection that serves its project for as long as the project is open (`UsesAsked`).
`FilesInv` is behind `OneCallMakesTheCheckpoint`, `WritesReplaceWhatWasShown` and
`FilesKeepRequests`: a ledger holds only what its client was shown or made (`LedgerOK`), a write
under way quotes revisions from it (`OperationOK`) and keeps that quote whatever is
rebased or unlinked beneath it, and a checkpoint is asked for by the one call that claimed
it (`BaselineOK`, `CallAsked`). Each part makes and settles its requests as `AgentRequests`
says, so what is proved of a tool holds with the hub in the place of that promise.

**`JsonStoreProofs`.** `AnswersOutliveCrashes` and `StoreImplementsDocument`. The invariant: the
file is the published document, but for the one update that was renamed and not
published, which holds the lock.

Except where a run lists one, the type invariants of the modules are theorems and not
repeated as invariants of their runs. Only model-checked: liveness (`JobEventuallySettles`,
`CallsEnd`, `ZombiesGo`), which this prover does not handle, since it rests on fairness
and hence on ENABLED; the statements the six violation runs refute, each under the conditions
of its run; and that the mutants are caught. Every other property of a passing run is
a theorem. A few leaves name the prover that finds them and allow it more time
(`ZenonT(60)`): they expand large record types.

## Not modelled, and what could follow

* Of the job broker: heartbeats, presence and the text of recovery notices. Presence
  decides only how an unreachable desktop is described.
* Wake-up signals: a version and listeners per key, in memory. Waiters read the store
  when they wake or time out, and the broker's modules let them read at any moment,
  so a lost signal costs time only.
* Of the IDE bridge: the selected project, events for the user's interface,
  authentication and capabilities of a connection, shutdown, search and listings.
  A write answered after its project was closed puts contents into the cache of an id
  that is never used again.
* The MCP front end, tool catalog and policy, tokens and keys, HTTP core, mail, audit,
  analytics, migration scripts: pure functions, output, or state nobody else reads.
  Formatting, hashing and encryption are outside every model.

Worth doing next: that the MongoDB broker implements `JobLifecycle`, as the JSON broker does;
presence and signals as a module of their own.
