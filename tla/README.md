# A TLA+ development of the REST API template

This directory specifies the stateful core of the server under `src/src`: a Koa
application with TypeORM on Postgres, optional Redis, pg-boss jobs, a storage for
files, and Socket.IO. One replica is a single-threaded event loop, so code runs
without interruption from one `await` to the next, and everything else, requests of
the same replica, of others, periodic jobs and workers, may run in between. Several
replicas share the database, Redis, the queue and the storage. The specifications
have one action for each such stretch of code with an effect.

## 1. Inventory

| Part (`src/src/...`) | State | Operations | Hard behaviour | What makes it correct |
|---|---|---|---|---|
| `modules/session` | table `sessions` (hash of the current refresh token, expiry, last use) | open at login, rotate at refresh, terminate one / others / all, evict beyond 10, cleanup, listeners for password, privileges, deletion | two refreshes with one token; refresh against termination; DELETE and mark are two steps | one token buys one pair; an ended session stays ended; what ends is refused; the limit holds |
| `core/auth` (`token.service`, `session-revocation`, `has-permission`) | marks `revoked:session`, `revoked:user`, `privileges:changed` in Redis, in the memory of every replica, and a cache of Redis for a second | issue, verify, mark, check | caches, replies under way, failures of Redis, unordered writes of replicas | a mark refuses the tokens it is about, for as long as they live |
| `modules/auth` | failures of login, lockout, 2FA attempts in Redis or memory | signIn, 2FA, refresh, sign-out, reset of the password | counters read before and written after slow hashing; two stores, no transaction | a limit holds; a lock ends; a one-time token works once |
| `modules/user`, `modules/role`, `modules/permission` | `users`, `roles`, `permissions`, their links | privileges of a user, permissions of a role, deletion of a role or user, password | check and save are separate; the rights are copied into tokens | changes reach every token; no one makes himself a superuser |
| `modules/otp`, `user/email-change`, `modules/reset-password-tokens` | codes with attempts, requests of change, tokens | issue, check, consume | stale entities saved whole; codes replaced during a check | a code works once, for what it was sent to |
| `modules/biometric`, `modules/passkeys` | devices with key and nonce, passkeys, challenges | register, ask for a nonce or challenge, answer, remove, cleanup | a save is a SELECT and then an UPDATE; a removed device saved again; count before insert; several answers to one challenge | an answer counts once; a new key does not take the old nonce; what was removed stays away; nobody spoils another's challenge |
| `modules/file`, `modules/storage` | `files`, objects, signed links | upload, direct upload and confirmation, deletion, derivatives, cleanup, collector | one row, several objects and a job kept together by order only | no original without a row, no confirmed row without an original; files do not hang |
| `modules/jobs` | pg-boss queues, workers, schedules | enqueue in the caller's transaction, run, retry, expire, stop | an expired attempt runs on beside its retry | at-least-once with idempotent handlers |
| `core/event-bus` | listeners | `emit` (not awaited), `emitAsync` (awaited) | failures of listeners are swallowed | promises hold when `emitAsync` returns |
| `modules/socket`, presence in `modules/profile` | token lifetimes and timers of connections, rooms and recorded subscriptions, registry of sockets in Redis with a time to live | handshake, refresh of the token, disconnect, subscribe, review of rooms, registration, heartbeat, online and offline events | handlers attached after awaits; answers acted on after what they were about has changed; decisions from reads of several replicas; replicas that die | a connection outlives neither its token nor its session; no room without the right; online while connected, offline after the last socket |
| `core/guards/throttle`, `middleware/rate-limit` | counters with an end, in Redis or memory | hit, count, refuse; the limit of the whole API before it | INCR and PEXPIRE are two commands, which rejections and crashes separate; errors from further down pass through the limit | a window ends; a request is handled once; refused only for a reason |
| `modules/api-key`, `modules/audit` | keys with their last use; audit rows | create, verify, touch, revoke; record, tell, list by pages, cleanup | touches written late; rows committed late with an early time between two pages | the trail shows everything once; a key only moves forward |
| `app.ts`, `main.ts`, `core/db/*`, `core/bootstrap` | the stage of the process, readiness, migrations lock, health | start, stop in stages with limits, forced exit, health check | signals, work and clients while parts open and close one after the other | ready means up; work finds its parts; the stop ends |
| `core/redis/live-store`, `core/db/pg-signals` | shared live values, LISTEN connection | - | base classes that nothing in the repository instantiates | - |
| mail, media conversion, controllers, DTOs, generated routes, configuration, migrations, scripts | none of their own | - | pure input and output | - |

How the parts interact: `AuthService` calls `SessionService` and `TokenService`;
`UserService` and `RoleService` never call the sessions but emit events, awaited, that
`session.listener.ts` turns into terminations and marks; every authenticated request
and socket goes through `TokenService.verifyAccess` and the revocation list; biometric
and passkey logins end in `AuthService.completeLogin`; the file module shares the queue
with its own periodic jobs through the database, and the profile module tells it,
through a probe, which files are avatars; security events of all parts reach the audit
trail through the event bus; `App` starts and stops the queue, the sockets and the bus
around all of it.

`PROJECT.json` lists the components with what is modelled of each, the hazards with
their lines, and where each definition comes from.

## 2. Modules

| Module | Models | Proved in |
|---|---|---|
| `Sessions` | life of the device sessions of a user | `Sessions_proofs` |
| `Privileges` | roles, permissions and the tokens that copy them | `Privileges_proofs` |
| `RevocationList` | the marks on several replicas with Redis | `RevocationList_proofs` |
| `FileLifecycle` | one file: row, objects, job, client, jobs | `FileLifecycle_proofs` |
| `FileStatus` | abstract: what the file module promises of a file's status; implemented by `FileLifecycle` | `FileLifecycle_proofs` |
| `AuthAttempts` | login failures and lock, 2FA token, reset and change of the password | `AuthAttempts_proofs` |
| `Accounts` | the address of a user: verification by code, change by the user and by an administrator | `Accounts_proofs` |
| `Challenges` | biometric devices and passkeys of a user, with what they are asked to sign | `Challenges_proofs` |
| `AppLifecycle` | a process from start to exit, with its work, behind a balancer | `AppLifecycle_proofs` |
| `Sockets` | a connection: its token, its session, its list room | `AppLifecycle_proofs` |
| `Presence` | the connections of a user over replicas, and who is told of them | `Challenges_proofs` |
| `Throttle` | the limit of the API and the guard of a route, for one client | `RevocationList_proofs` |
| `AuditTrail` | an API key, the events and a client that reads them | `FileLifecycle_proofs` |
| `MC*` | symmetry and values for TLC | |

A proof module with a second part proves about two components that share no state; the
operators of the second component carry its name where they would otherwise clash
(`SocketsInit`, `ThrottleSpec`, `PresenceTypeOK`, `TrailNext`).

In every module with requests, `req` (or `call`, `conn`, `proc`) holds the program
counter and the locals of each one that is under way, and an action is what the code
does from one await to the next. Variables and fields marked as history record what
happened for the properties to refer to; no action depends on them. Definitions whose
comment starts with "Slip" are plausible mistakes: no action uses them, and each is what
`PROJECT.json` puts in the place of a definition to see that a property notices.

### Sessions

One user (sessions of different users share nothing), a set of concurrent `Requests`.
`rows` is the table, with `refresh` the token whose hash is stored; `pairs` what was
signed into each stored pair (session, `pat`, and the refresh token it was bought
with); `held` the pairs a client received; `marks` and `userMark` the revocations;
`req` the program counter and locals of each request; `ended` is history.

Every action is a stretch between awaits: `LogIn`/`Refresh` read, `Issue` signs,
`Insert`/`FindEvicted` are `createAuthenticatedSession`, `Rotate` is the conditional
update of `rotateRefreshToken` (`RotateWon`, `RotateLost`: a refresh that loses goes on
to end its session), `Terminate`, `TerminateOthers`, `SignOut`, `SignOutAll`,
`SavePassword`, `FindAll` select what to end, `DeleteRows` and `Revoke` are the two
halves of `_terminate`, `Cleanup` the periodic job, `DeleteUser`/`MarkUser` the
deletion with its cascade; the listener swallows a failure of the mark, and the deletion
is answered all the same. `Abandon` stops a request anywhere: the replica dies or a
query throws. The listener of a change of password ends all sessions but, for one's
own change, the current one (`Spared`).

The marks are one linearizable store here; what the cache and the memory of the
replicas add is in `RevocationList`.

### Privileges

Tables `granted` (permissions of roles), `member`, `direct`; `mark` the instants of
`privileges:changed`; `tokens` the signed access tokens with the rights they copy.
`ReadUser` and `Sign` are the two halves of login and refresh. `SetPrivileges`,
`FindRoles`, `SavePrivileges` are `setPrivileges`, checks first, then the roles, then
the save; `SetRolePermissions`, `SaveRole`, `FindMembers` change a role, `DeleteRole`
and `DropRole` delete one; `Notify` marks the users, one by one. A `save` of a deleted
role inserts it again, as TypeORM does.

`past.superActed` remembers that a superuser asked for a change; `past.unmarked` the
users whose notification was lost (a crash, or a member who came after the members of
a role about to be deleted were listed).

### RevocationList

The class of `session-revocation.ts` on several replicas. A replica has one
connection, so `toRedis` and `fromRedis` are first-in first-out; Redis serves the
replicas in any order. `Begin` looks at the replica's own marks and at the cache,
`Consult` sends the lookup, `Serve` is Redis, `Receive` takes the answer and
`Remember`s it, `Fail` is an answer that never comes, `MarkLocally`, `Write`,
`Publish` make a mark. `Restart` empties a replica. `owed` notes at the start of a
check what it was promised at that time.

### FileLifecycle and FileStatus

One file: the `row`, the objects (`original`: none, good, short or forged;
`variants`), the signed `link`, the pg-boss `job`, the handler of each attempt
(`worker`), the calls and periodic jobs (`proc`). Creation stores the object and then
inserts row and job in one transaction (`StoreOriginal`, `InsertRow`), or makes a
pending row and a link (`CreateUpload`). `CompleteUpload`, `Stat`, `DropObject`,
`ReadHead`, `Confirm` are the confirmation; `FindForRemoval`, `CheckUse`, `RemoveRow`,
`RemoveStored` deletion by hand, by `file.remove` and by the collector; `FindStale`,
`SweepStored`, `SweepRow` the cleanup. `CheckAvatar`, `Attach`, `Release` are the
profile's reference. `Fetch`...`Clean` is the worker, whose last attempt throws
even if the row has moved on (`failed`, `EndOf`); `Expire` gives an attempt up
while its handler may run on, `Die` ends it. The client uses its link at any time
(`Put`); the local storage removes an upload of the wrong size after storing it
(`Refuse`).

`FileStatus` is the promise: pending is confirmed once, processing settled once, ready
and failed are final, gone is for good. `FollowsStatus` is the refinement, with
`status <- row.status`.

### AuthAttempts

One account and a set of one-shot requests. In the attempts store: `fails`, the
counters of login and 2FA failures with their end, `lock`, and `spent`, the 2FA tokens
that were accepted. In the database: `user` (a version of the password, 2FA or not),
`reset` (the row of `reset_password_tokens`) and `sessions` (the version of the
password each was opened with). `issued` holds when the 2FA token of a login expires;
a token, of a login or of a mail, is named after the request that made it.

`SignIn` reads the user, `Status` the lock before the slow comparison of the password;
`AddFailure` and `SetEnd` are the two commands of `addFailure`, `Lock` and `Clear`
those of `registerFailure` at the limit; `Forget` and `OpenSession` end a login.
`Verify2FA`, `Compare2FA`, `Claim` are the second step. `RequestReset`, `Upsert` mail a
token; `Peek`, `Check`, `Consume` use it, and then `Drop2FA`, `SetPassword`,
`UnlockFails`, `Unlock`, `EndSessions` are separate statements. `ChangePassword` shares
the last of them; `Enable2FA`, `Disable2FA`, `Save2FA` change the second factor.
Passwords are right or wrong by choice: both outcomes of each comparison are steps.

`past.lost` and `past.unended` note requests that stopped between two commands,
`past.excused` the logins under way when the sessions were ended. How sessions end,
one by one, is the subject of `Sessions`; here it is one step.

### Accounts

One user and a set of requests, each made again as long as it leaves no trace, so a
wrong code may be entered any number of times. `user` is the address and whether it is
verified, `taken` the addresses of others (`OthersTake`, `OthersLeave` stand for all
that other users do), `otp` and `change` the user's rows of `otp` and
`email_change_requests`, `sentTo` where each code was mailed. A code is named after the
request that made it; a client enters a mailed code or a wrong one.

`RequestVerifyEmail`, `WaitForCooldown`, `Create`, `Upsert`, `Mail`, `Withdraw` make a
code; `VerifyEmail`, `FindOtp`, `IncrementOtp`, `DeleteOtp`, `ConsumeOtp`,
`MarkVerified` check it, with the statements by user id that hit whichever code the
user has by then; `CleanupOtp` is the periodic job. `RequestChange`, `FindPrevious`,
`FindConflicting`, `Replace` make a request of change; `Confirm`, `RejectCode`,
`DropChange`, `FindOccupied`, `Apply` confirm it, where `Replace` and `Apply` are
transactions and the unique index of the address may undo `Apply`. `UpdateUser`,
`ApplyContactPatch` are the administrator's change, which goes on to make a code.

`past.proved` are the addresses proved by a code, `past.dead` the codes that expired,
were exhausted, replaced or withdrawn, `past.replaced` those that another took the place
of, `past.contested` whether the wanted address went to another user, `past.overlapped`
whether the administrator's last change met a code, or the making or check of one, for
an earlier address. `doubt` notes in a check that its code was dead when it began, or was
replaced before its end.

### Sockets

Connections of users, each with `conn`: its stage, whether it is in the room of its user
(`room`), in the list room (`member`), with the subscription on record (`noted`), when
its token expires and its timers fire. `Handshake` admits it, `Enter` is the connection
handler after its calls to Redis: the room of the user and `watch`; a rejection there
leaves it `failed`, open and unwatched. `Expire`, `GraceOver` are the timers, `Verify`
and `Refresh` the two halves of `auth:refresh`, `Ask` and `Join` those of
`room:subscribe`.

`EndSession` deletes the row, has the tokens refused and emits; `DisconnectSession` is
the listener that closes the connections it finds in the room of the user. `DeleteUser`
and `RevokeUser` are the two listeners of a deletion. `ChangeRight` takes or gives the
right of the room; `FetchSockets`, `Decide`, `Revoke` are `revalidateUser`. A call to
Redis or the database may be rejected (`Fails`). `late` is history: members whom no
review of the loss of their right had to find.

The tokens that exist are not state: `Accepted` says which expiries a token may have
that `verifyAccess` accepts now, from the end of its session and whether its tokens are
refused. That they are refused at once on every replica is what `RevocationList`
qualifies.

### Challenges

One user: `biometrics` is the row of each device with its key and its nonce, `passkeys`
the registration behind each credential, `challenges` the table of passkey challenges,
`expired` the nonces and challenges whose time is over. Keys, nonces and challenges are
named after the request that made them. A request keeps a `copy` of the row it read and
makes of it the `Entity` it saves. TypeORM's `save` of an entity with an id is two steps:
`SelectDevice` SELECTs the row of that id and notes in `writes` the columns in which the
entity differs, or all of them if the row is gone; `UpdateDevice` writes those columns and
no others, `InsertAgain` the whole row. Updates and deletes by condition decide on the row
in one step.

`FindDevice`, then that save, or `CountDevices` and `InsertDevice`, are the registration of
a device; `FindDevice` and the save, or `AnswerUnknown`, give out a nonce; `FindNonce`,
`ConsumeNonce`, `OpenSession`, `MarkUsed` are the answer, where the nonce goes before the
signature is compared; `DeleteDevice` is the removal. `FindKeys` or `AskRegistration`, then `CreateChallenge`,
give out a challenge; `FindCredential`, `ConsumeChallenge`, then `SelectPasskey` and `SavePasskey`, or
`UpdateCounter` and `OpenSession`, answer it; `DeletePasskey` and `Cleanup` remove.
Signatures match or not by choice. `retired` remembers the keys that were removed or
replaced while nobody was about to write a copy of them back (`Pending`).

### AppLifecycle

`stage` is where `App.start` or `App.shutdown` stands. `pool`, `boss`, `bus`, `redis`,
`http` are the parts, `request`, `clients`, `job` the work, `dbUp`, `schema`, `lock` the
database as replicas that start share it, `balancer` whether traffic is sent. WebSockets
connect in every role, for Socket.IO is attached to the worker's HTTP server as well. `Listen`,
`Connect`, `LockMigrations`, `Migrate`, `SkipMigrations`, `FirstCheck`, `StartJobs`,
`SeedUsers`, `StartSockets` are the start, `FailStart` its failures. `Signal` sets
`/ready` to 503; after the drain `CloseHttp`, then `HttpClosed` or `Cut` and
`CutClosed`, `StopParts`, `JobsStopped`, `CloseRedis`, `EndPool`; `ForceExit` is the
timer of `main.ts`. `CheckBegins` and `CheckEnds` are the health monitor, whose answer
may come after it was stopped.

The clock counts from the signal. What takes time is named in `Waiting`; steps that only
wait for a prompt answer take none. `waited` is the time spent in waits that have no
limit of their own: for WebSocket clients after the cut, and for queries at the end of
the pool.

### Presence

`conn` is each connection with the replica it is at and its place in the handler; `local`
what each replica's registry knows; `store` and `ttl` the set in Redis and its time to
live; `due` the replicas whose heartbeat is due; `told` the last event that was emitted.
`Connect`, `Ask`, `Register`, `Announce`, `Listen` are the connection handler, which
attaches its listener of disconnections last; `Disconnect`, `Unregister`, `AskAgain`,
`Tell` are that listener; `Beat` is the heartbeat; `Stop`, `StopRegistry`, `Exit` the end
of a replica, `Crash` its death. Redis may reject a command `MaxFailures` times, the
removals of `StopRegistry` included, after which the stop goes on and the replica still
knows its connections.

`astray` are the connections that no listener will remove, `lost` notes that a replica
went down with something left to do, `overtaken` that an offline event was emitted after
the user had come back.

### Throttle

One client. `driver` is the store the process was configured with; `count` and `ttl` are
the counter. `Admit`, `Refuse`, `LimitFails` are the limit of the whole API around
koa-ratelimit. Its catch sees every error from what it called, the guard's 429 and the
handler's own included; `Caught` is that catch: it throws the error on if koa-ratelimit had
`passed` or the status is 429 (`Rethrown`), and else calls what comes next itself, from
where nothing is caught any more (`open`). `calls` counts these calls; koa-compose would
refuse a second one from within koa-ratelimit, not one from the catch. `HitRedis` the transaction of the guard, `ExpireKey` the
command that gives a new counter its end, sent by everybody who saw it without one;
`HitRejected`, `ExpireRejected`, `Die` are the failures. `HitMemory` and `ReadRecord` are
the two halves of the store in memory: what is awaited is the record itself, so it is
read after other hits. `Handle` is the handler, which may throw. A hit and the command
after it take no time against a window, so `ThrottleTick` waits for them.

`age` is the time since a request was counted, `stuck` that the counter lost the command
that was to end it.

### AuditTrail

`key` is the row of an API key, `events` the rows of the trail, `page` a client that
reads them from the newest to the oldest, `shown` what the room of the trail told it.
`Create`, `FindKey` and `Revoke`, `Verify` and `Touch` are the operations on the key;
the first two, like any other security event (`Happens`), go on to `Stamp`, `Commit`,
`Tell`: the insert takes its time when it starts and its row is seen when it commits.
`RecordFails` and `AnswerLost` are what `record` catches: an insert that failed, and one
that committed but whose answer was lost, so that its row is there and nobody is told.
`AuditCleanup` deletes by age, `Open` and `ReadPage` are the client, who is taken to join the
room before the first page.

`began` are the rows that were there when the client began to read.

## 3. Runs

| Run | Bounds | Shows |
|---|---|---|
| `sessions` | 2 requests, 2 sessions, 3 pairs, limit 1, times of life 1, clock 0..1 | refresh tokens are exchanged once, ended sessions stay ended and their tokens are refused, a deleted user's once he is marked; a change of password ends what was open, the limit holds |
| `privileges` | 2 users, 3 requests, `admin` and one role, `*` and one permission, clock 1..4 | changes reach tokens; no superuser from below |
| `revocation` | 2 replicas, 1 session, 3 calls, lives of tokens and marks 4, cache life 1, latency 1, 2 instants to the second, clock 0..5 | own marks at once, those of others once the cache has turned over, but for those an older mark was written over |
| `file_lifecycle` | 2 calls, 1 periodic job, 1 retry, under `FairSpec` | row and objects agree, the status follows `FileStatus`; pending, processing and orphaned files do not stay |
| `auth_attempts` | 4 requests, limit 2, 2FA token 2, other times 1, clock 0..2 | a limit locks, a lock and its counters end, one-time tokens work once, old passwords open nothing new |
| `accounts` | 3 requests, 2 addresses, limit 2, times 1, clock 0..1 | a code works once and while it is good; a verified address was proved; requests of change do not vanish |
| `challenges_reset` | 2 requests, 1 device, 1 credential | (violation) a device registered again may keep a nonce given out meanwhile |
| `sockets` | 1 connection, 2 sessions, 1 user, 2 changes of rights, 1 rejected call, times 1, clock 0..3 | a connection does not outlive its session, nor its place in a list the right |
| `presence_challenges` | 3 connections, 2 replicas, life of the key 3 heartbeats, 1 rejected command | who is connected is online, who is not is offline in time, others are told the truth |
| | 3 requests, 2 devices, 1 credential, limit of devices 1 | an answer counts once; a nonce found by a registration is not answered with the new key; what was removed stays away; a challenge is not spoiled by others |
| `throttle` | 5 requests, limit 2, window 2, 1 failure | what comes after the limit is called once for each request; at most twice the limit passes in a window; a refusal has its reason |
| `audit_trail` | 3 requests, 3 ids, page of 1, retention 1, interval 1, clock 0..2 | pages and room leave nothing out and repeat nothing; a revoked key stays revoked, its last use does not go back |
| `app_lifecycle` | 2 requests, 1 client, 2 jobs, drain 2, in-flight 1, jobs 1, forced after 5, balancer asks every 1 | readiness can be relied on; work finds its parts; the stop is forced only if something held it, and ends |

Why the bounds are enough to be interesting. The mutants in `PROJECT.json` are slips of
the kind the code could have; each makes its property fail within these bounds, so the
bounds reach the cases. The proofs drop these bounds. That every variable keeps its type
is proved for each module and left out of the runs.

- The races of `Sessions` are between two requests; two sessions are needed for eviction
  with limit 1 and for "others"; three pairs for a login, a refresh and its rival; a
  clock with one tick separates signed before from signed after an end, and lets
  everything expire.
- In `Privileges` two changes and a login are three requests; a change, a mark and a
  signature need their own instants, hence four.
- In `RevocationList` two marks and a check, or a mark and two checks (the second
  answered from the cache), are three calls; two instants to the second make instants
  that differ fall into one second; a token of life 4 outlives cache and latency and so
  meets the time when a mark must have arrived.
- In `FileLifecycle` the calls are one creation and a rival; one retry makes an expired
  attempt and its successor run at once.
- In `AuthAttempts` two failures lock with limit 2, a token is a login with two second
  steps or a mail with two resets, and the fourth request is a rival: a failure, a change
  of the password, a new mail. A 2FA token lives two ticks and is remembered one at
  least, so that both terms of its maximum occur.
- In `Accounts` three requests are a code and two checks, or a code, a change of the
  address and a check; requests that leave no trace are made again and exhaust a code
  without being counted; one tick ends the cooldown and expires the first code.
- `Presence` and `Challenges` share no state and no step, and one run checks both:
  `MCPresenceChallenges` lets each of them step while the other is where it starts, so
  every state that one of them reaches alone is reached and their states do not multiply.
  In `Challenges` three requests are a registration, a nonce and an answer, or a
  challenge and two answers; two devices with limit 1 make the count before the insert
  matter. `OneAnswerEach` and `FoundNonceReset` are proved for any number of requests.
- In `Sockets` connections share nothing but the snapshot of a review, so one shows every
  race of a connection with the timers, the listeners and its own messages; the second
  session is there for tokens that are not the connection's, two changes take the right
  away and give it back, or take it away beside a deletion, one rejected call is a failure
  at every place it can happen, and three ticks are the life of a token, the grace, and
  one more to be late.
- In `Presence` three connections are one that stays, one that goes and one that comes
  back, on the same replica or another; a key that lives three heartbeats survives one
  that is rejected and dies after the last.
- In `Throttle` five requests are two full limits and the one too many; two ticks are two
  halves of a window, on both sides of its end.
- In `AuditTrail` three rows are one on each side of a cursor and one in between, and the
  three ticks a time before, of and after the retention.
- In `AppLifecycle` two requests are one that is served and one that comes late, two jobs
  one that ends and one that is given up; the times are the least that differ and satisfy
  the `TimesAssumption` of `AppLifecycle`, as the defaults of production do (5 + 10 + 20 seconds of 45).

`CHECK_DEADLOCK FALSE` is set everywhere but for `Accounts`, where other users always
have something to do: requests and calls are finite, and a system in which all are
answered stops.

### Exceptions

What the code does not promise is written into the properties it would break, so that
they say all the more of the rest.

- `OutdatedWereInFlight`: a login or refresh that read the user before a change of rights
  and signs after its mark gets a token with the old rights.
- `TokensOneTime`: two second steps that verify one 2FA token before its expiry and
  claim it around that instant may both be accepted.
- `LimitLocks` is about logins. The limit of 2FA failures is read before the password is
  compared and counted after (`auth.service.ts:399`), so every request that is under way
  when the limit is reached has its try; the model has these steps and states no more.
- `MarksReachReplicas`: a privileges mark is an unconditional SET of its maker's clock.
  When two replicas mark one user, the older instant may be written last, and tokens
  signed between the two are accepted again by every replica but the maker of the newer
  mark (`Overtaken`).
- `NothingLost` leaves out what `past.swept` records. The cleanup reads the status once
  for its batch and deletes by id, so it deletes, objects and row, a file that was
  confirmed meanwhile (`file-cleanup.job.ts:18-19` and 42); the removal of an upload of
  the wrong size that was replaced in the meantime loses an original as well.
- `FilesSettle` leaves out the processing of a file whose job was given up.
- `VerifiedByProof` leaves out an address that an administrator wrote while a code for an
  earlier one was around.
- `RetiredStayAway`: a nonce is stored with TypeORM's `save` of an entity read before
  (`biometric.service.ts:118`), which brings back a device removed in between, or a key
  replaced in between: the SELECT of the save finds no row, or another key, and what
  differs is written.
- `FoundNonceReset` is about the nonce a registration found when it read the row. One that
  is stored between the SELECT and the UPDATE of its save stays (`challenges_reset`).
- `DeletedUserRejected` speaks of a user whose mark was written. When its write fails the
  tokens of the deleted user are accepted until they expire, and the deletion is
  answered all the same (the second disjunct of `MarkUser`).
- `RoomFillsGaps`, in `TrailComplete`: an insert that committed but whose answer was lost
  is a row nobody is told of (`AnswerLost`). The message itself is taken to arrive: what
  the Redis adapter loses on its way to another replica is not modelled.
- `RevokedLeave`: a connection that joins on an answer given before the right was lost
  stays in the room, and so do those outside of the room of their user and those whose
  review failed. `EndedSocketsClose` is about connections whose handler did not fail.
- `ToldRight` and `EntriesLeave`: an offline event may come after the user was back, a
  connection that closes before its listener is attached is never heard of, and a
  replica that dies says nothing; the entries of the last two go with the key only, which
  stays while a replica that knows the user beats.
- `ForcedOnlyHeld`: closing Redis and stopping the queue are taken to answer promptly, and
  the end of the pool to wait for handlers only. If one of them hangs, the stop is forced
  as well.
- `ConnectedStayOnline`: when Redis rejects the heartbeats for as long as a key lives, the
  key goes and a connected user with it. The run has one
  rejected command against a key of three heartbeats; one more breaks the property, and
  the theorem has the condition as its hypothesis.
- `RefusedForCause`: a counter that lost its PEXPIRE refuses without a cause until the
  next hit mends it, and requests that hit the memory store together are all judged by
  the last count.
- `WorkFindsParts`: a job that runs while the process starts may emit an event before its
  listeners are registered (`app.ts:184`).

### Where documents and code disagree

Met while modelling; each is a sentence of the repository next to what the code does. The
first is a finding that a run shows.

- `modules/biometric/README.md:65`: registering the key of a device again resets the nonce
  that was given out. The registration saves an entity without a nonce, and `save` writes
  what differs from the row it SELECTs. If that row has no nonce either, and
  `generateNonce` stores one before the UPDATE, the UPDATE sets the key alone, and the
  nonce is answered with the new key (run `challenges_reset`).
- `user.service.ts:759`: by the answer to a deletion the tokens of the user are revoked.
  The listener of the event logs a failure of `revokeUser` and returns
  (`session.listener.ts:73-79`), so the deletion is answered without.
- `role.service.ts:121-132`: only a superuser changes the permission `*` of a role, says
  the comment; the code asks for one when it is given, not when it is taken away.
- `session-revocation.ts:226` says other replicas honour a mark after the life of a
  cache entry; an answer of Redis under way is cached after it. `:270-271` says that
  tokens issued before a change are refused; an overwritten mark refuses fewer.
- `user.service.ts:413`: by the answer to a change of privileges the sessions are up to
  date; a token that is being signed has the old rights.
- `user.service.ts:264` and `317`: the new address gets a code, but a cooldown that began
  with the code for the old one keeps it from being sent.
- `file-process.job.ts:50`: a file goes to failed after the last attempt; one whose last
  attempt was aborted stays in processing.
- `biometric.service.ts`: the limit of devices is counted before the insert, so
  registrations at once exceed it. The counter of a passkey is written without a
  comparison and may go back.
- `docs/60-domain/realtime.md:22`: without `auth:refresh` a connection is closed 30 s after
  its token expired; one whose handler Redis rejects (`socket.bootstrap.ts:72`) is never
  watched, and stays.
- `socket-client-registry.ts:53-57`: the entries of a dead replica expire; the heartbeat
  of another one with a connection of the same user keeps the whole key alive.
- `app.ts:67-70` and `docs/50-tech/bootstrap.md:40-44`: connections still open after the
  in-flight timeout are cut; `closeAllConnections` does not know of WebSockets, and
  `closed` is awaited again without a limit (`app.ts:297-310`).
- `throttle.store.ts:10` speaks of a sliding window; the window is fixed and twice the
  limit may pass within its length. `:55` calls INCR and PEXPIRE atomic; they are two
  commands.
- Two concurrent revocations of an API key are recorded as two events.

### Fairness

`FairSpec` of `FileLifecycle` assumes:

- time passes (`LinkExpires`, `GrowOld`);
- pg-boss hands out jobs, and a handler that was started goes on; it may still throw,
  be expired or die, for that is not constrained;
- a periodic job is started again and again by its schedule. A single run may be
  killed or end at a storage failure, but from some time on none is killed any more
  (`<>[][~Abandon(p)]_vars`, with strong fairness of the successful removal): crashes of
  the cleanup come to an end, which is more than that some run gets through;
- nothing of clients.

`Spec` of `AppLifecycle` assumes that the process goes on stopping, that time passes and
that the balancer asks (`WF` of `Stop`, `Tick`, `BalancerAsks`). Nobody has to answer a
request, to end a job or to leave, so `Exits` rests on the limits and the timer of
`main.ts`. The other modules have safety properties only and assume no fairness.

## 4. Proofs

Each `*_proofs` module proves its theorems for every value of the constants that meets
the assumptions named below, four of them about two components, one after the other; TLC checks the same formulas on the instances above. The
arguments share a form: `Spec => []Inv` from an inductive invariant that holds initially
and is kept by every action, with lemmas that state once what an action does to its
request.

**`Sessions_proofs`**, for any requests, sessions and tokens. Assumptions:
`NoneAssumption` (`None` is no token), `TtlAssumption` (times are naturals, and a mark
lives at least as long as an access token, which `accessTokenTtlMs` computes from the
same configuration) and `BoundAssumption`.

| Theorem | Says |
|---|---|
| `TypeCorrect` | every variable keeps its type |
| `BasisHolds` | references between rows, pairs, drafts and marks are sound |
| `ExchangedOnceHolds` | a refresh token buys one pair |
| `NoResurrectionHolds` | an ended session is never open again (an action property) |
| `NothingSignedAfterEndHolds` | no client holds a token signed after its session's row went |
| `EndedTokensRejectedHolds` | a marked session's tokens are refused for ever |
| `DeletedUserRejectedHolds` | a deleted user's tokens are refused for ever once his mark is written |
| `PasswordEndsSessionsHolds` | a change of password ends what was open at its save |
| `LimitKeptHolds` | the sessions beyond the limit are no more than the logins that have yet to evict |

None of the properties is inductive. `Basis` adds to `TypeOK` that all that is referred to
was stored (`References`) and what a request has at hand at each program point (`Drafts`:
a draft that waits for `rotate` was bought with the token the request presents and names
its session; two logins never draw the same session). `Exchanges` says why the
compare-and-set works: a token that bought a pair is not the current one of its session,
so it cannot match again. `EndsBound` bounds what is signed for a session without a row by
the instant the row went; `Marks` says that rows go before marks, so that the bound holds
by the time the mark is written, and that the mark outlives it. `Deletion` and `Passwords`
follow their request from the save to the answer. `LimitKept` counts what several logins
found before any of them deleted, and they may have found the same rows: `Limits` says, for every set `Q` of
logins about to delete, that what `Q` leaves is within the limit plus the other logins
that evict. With `Q` empty it is the property; a login that finds the surplus joins any
`Q`, and one that deletes leaves it.

**`Privileges_proofs`**, for any users, requests, roles and permissions
(`PrivilegesAssumption`: the constants have their types).

| Theorem | Says |
|---|---|
| `TypeCorrect` | every variable keeps its type |
| `NoSuperuserByOthersHolds` | administrators of lower rank make no superuser, however their changes interleave |
| `OutdatedWereInFlightHolds` | a token with outdated rights was being signed, or its holder is still to be marked, or lost |

`Guarded`: until a superuser acts, what requests have decided but not saved is harmless
(`Harmless`) and nobody has become one (`NoneMade`). The first is needed because `*` may be
given to a role between the check and the save; no such request of another passes.
`Followed`: an accepted outdated token that was not being signed has a holder whom
somebody is to mark (`Excused`), even a role's members that are not listed yet.

**`RevocationList_proofs`**, for any replicas, sessions, calls and times
(`TimesAssumption`: naturals, marks live as long as tokens).

| Theorem | Says |
|---|---|
| `TypeCorrect` | every variable keeps its type, every call to Redis has its one message on the wire |
| `OwnMarksHonouredHolds` | the replica that made a mark refuses its tokens, whatever Redis does |
| `MarksReachReplicasHolds` | what Redis took is honoured everywhere from a cache life and an answer on, unless overtaken |

`Wired` says which calls are on which wire and that no call is there twice. `OwnInv`: the memory of a replica holds,
for every mark it made, one that covers it, and a check that was promised a refusal starts
with it. `Timely` bounds how old questions, answers and cache entries are. `SharedInv`
follows a mark through Redis (`SharedKnown`), the answers that were served after it
(`RepliesKnown`), the cache entries that were filled from them (`CacheKnown`) and the
checks (`SharedAnswers`): an entry that lives past `CacheTtl + Latency` after a mark was
filled from an answer that knew it.

Its second part is about **`Throttle`**, for any finite set of requests, any limit, window
and number of failures (`ThrottleAssumption`).

| Theorem | Says |
|---|---|
| `ThrottleTypeCorrect` | every variable keeps its type (beyond the runs) |
| `RequestsHandledOnce` | what comes after the limit is called exactly once for a request koa-ratelimit does not refuse, whatever fails |
| `RefusalsHaveCause` | a refused request had a full limit of others before it in a window's time, or a counter without an end (an action property) |
| `TwiceTheLimit` | no more than twice the limit get through in a window's time |

`CounterInv` says that the counter stays below the requests that hit it (`Counts`) and that
one that has not hit it has no number (`Untouched`). `Once`, the third part, is what
`HandledOnce` needs: a request that is past the limit got there by koa-ratelimit, which the
limit noted (`passed`), or by its catch, whose call nothing catches (`open`), so no later
error makes it call again (`CaughtPasses`). The
two others count. `Cause`: each number up to the counter went to a request that is younger
than a window (`Took`), and the counter in memory is no more than the requests as young as
its record (`Lived`), so a number above the limit means a limit of others. A counter that
lost its PEXPIRE is left out by `stuck`. For `TwiceTheLimit`, `Split` says that the
requests of a window's time fall into two sets, those of the counter that is there and
those of the one before (`TwoCounters`): one counter ends at a fixed time, so a third
cannot begin before the oldest of them is out of the window. In each set the numbers are
different and within the limit, and an injection into `1 .. Limit` bounds its size.

**`FileLifecycle_proofs`**, for any calls, periodic jobs and retries (`FileAssumption`: the
number of retries is a natural, no call is a periodic job).

| Theorem | Says |
|---|---|
| `TypeCorrect` | every variable keeps its type |
| `FollowsStatusHolds` | `FileLifecycle` implements `FileStatus` |
| `AnnouncedOnceHolds` | a file is announced as ready or failed once, and only when it is (beyond the runs) |
| `ProcessingHasJobHolds` | a file in processing has a job to end it, unless that job was given up (beyond the runs) |
| `NothingLostHolds` | a file that is shown has its objects, but for what `past.swept` records; the collector spares what is referred to |
| `OriginalGoesWithFileHolds` | a deleted file leaves no original once everybody is done, but for crashes and failures of the storage |

Three layers, each inductive relative to the one before. `Consistent` adds to `TypeOK` who
does what while there is no row (`Creation`, `Inserts`: one call creates the file), that a
job is made together with the status processing and that a handler runs only for it
(`Working`), and what was announced (`Events`); the refinement needs no more, since
`Confirm` and `Settle` are conditional on the status they find. `Orphans` says that nobody
refers to a file without an owner, which is what the collector's two-step check relies on.
`Objects` lists who may still remove an original or relies on it.

Its second part is about **`AuditTrail`**, for any requests, ids, page size, retention and
interval (`AuditTrailAssumption`: the page is not empty, `None` is no time and no row).

| Theorem | Says |
|---|---|
| `TrailTypeCorrect` | every variable keeps its type (beyond the runs) |
| `NothingMissedOrTwice` | a reader sees no row twice, misses none that was there when it began, and knows every row with what the room was told, but those whose insert was taken for failed |
| `KeysAdvance` | a revoked key stays revoked and its last use does not go back, whatever is written late (an action property) |

`Kept` and `Unique`: rows are finite in number and have ids of their own, those that are not
committed yet too, so that `Newer`, by time and then id, is a strict order without ties.
`Begun`: what was there when the reader began and was deleted was too old and stays away.
`Read`: what the reader got is not behind its cursor, and what it did not get is `Ahead` of
it or `Told` to the room. The step of a page needs that a page takes the newest of what is
left: `FiniteHasLast` gives every finite set of rows an oldest one, and the lemmas on pages
say that what is left behind a page is older than all of it.

**`AuthAttempts_proofs`**, for any requests, limit and times (`NamesAssumption`: `None` and
`First` are no requests; `TimesAssumption`: times and the limit are positive).

| Theorem | Says |
|---|---|
| `TypeCorrect` | every variable keeps its type |
| `LimitLocksHolds` | failures at the limit lock the account, unless the request that was to lock it was lost |
| `FailuresExpireHolds` | no counter stays without an end, unless the request that was to give it one was lost |
| `TokensOneTimeHolds` | a 2FA token is accepted once while it is valid, a mailed token sets one password |
| `SessionsProvedHolds` | what is open after a change of password was proved with it, was kept, or was under way |

`LimitLocks` and `FailuresExpire` are inductive with the types. The one-time tokens need
`OneTime`: a request has a token only where its program point says so (`Locals`), a token
is the login's or the mail's that made it, and never both (`Makers`), and while an accepted
2FA token is valid it is `spent`, while a consumed reset token is no row's (`Used`). The
sessions need `Proved`: a login under way or a live 2FA token carries the current password,
or one that a change has excused or is about to (`LoginsProved`, `TokensProved`).

**`Accounts_proofs`**, for any requests, addresses, limit and times (`AccountsAssumption`).

| Theorem | Says |
|---|---|
| `TypeCorrect` | every variable keeps its type, no address has two owners (beyond the runs) |
| `CodesSoundHolds` | one check of a code succeeds, and the code was good |
| `VerifiedByProofHolds` | a verified address was proved by a code mailed to it, unless written beside another code |
| `ChangeKeptHolds` | a request of change goes for one of five reasons only (an action property) |

`Sound` adds what a request has at hand (`Locals`) and that names of codes are not shared
(`Names`: two rows, or a row and a later code, never have one name). `Once` says that an accepted code is in no row;
`RowsAlive` and `ChecksSure` that a dead code can be seen to be dead, so that a check that
began with one gets nowhere; `Kept` that a request about to drop a change has a `Reason`;
`Proofs` that, while the address is unverified and nobody wrote it beside another code, all
codes and checks are about it.

**`Challenges_proofs`**, for any requests, devices, credentials and limit
(`ChallengesAssumption`: `First` and `None` are no requests).

| Theorem | Says |
|---|---|
| `TypeCorrect` | every variable keeps its type |
| `OneAnswerEachHolds` | of all answers to a nonce or challenge one counts |
| `FoundNonceResetHolds` | a nonce that a registration found is never answered with the new key |
| `OthersSpareChallengeHolds` | a challenge stays until its time is over or it is presented |
| `RetiredStayAwayHolds` | a removed or replaced key does not come back, unless a nonce was about to be saved with it |

`Sound`: what requests have at hand (`Shapes`); what a save is to write, the nonce it was
made for always among it (`Saving`); an answer presents what was given out (`Answering`),
as is the nonce of every row (`Nonces`); what was accepted is in no row (`Used`).
`Resets` carries `FoundNonceReset`: a nonce that a registration found is in no row with the
new key, a save that has yet to write still has to write the nonce as long as the row has
it, and no answer under way holds a copy of the two together. For the last theorem, a key
comes from a completed registration (`KeysMade`), so no new one is retired, and a copy
about to be written back keeps its key from being retired (`CopiesLive`).

Its second part is about **`Presence`**, for any connections, replicas, time to live and
number of failures (`PresenceAssumption`).

| Theorem | Says |
|---|---|
| `PresenceTypeCorrect` | every variable keeps its type (beyond the runs) |
| `EntriesLeaveInTheEnd` | an entry goes with its listener or with the key |
| `ConnectedUsersStayOnline` | the entry of a connected user stays, if `MaxFailures + 2 <= Ttl` |
| `OthersToldRight` | when all is quiet others were told right, if `MaxFailures + 2 <= Ttl` |

`Placed` and `Locals` say where connections are and that a replica whose heart beats knows
those it entered. `Ages` bounds the life of the key once nobody is known, `Entries` says
whose entries there are. `OnlineHasCause`: while others take the user for online somebody
is, or finds out whether he was the last; `ReturnIsTold`: while they take him for offline
and somebody is there, or knows of somebody, a connection is about to tell. The two
theorems with a hypothesis need `Beats` as well: the key under the entry of a connection
with a heartbeat has at least `Ttl` less the failures there were, less one if the heartbeat
is due. Every failure may be a heartbeat of the same replica, so without the hypothesis a
key may go from under a connected user (with `MaxFailures + 2 = Ttl + 1` TLC finds how);
the interval and the time to live of the code are the `Ttl` ticks of the model.

**`AppLifecycle_proofs`**, for any requests, clients and jobs and all times with
`TimesAssumption`: the balancer asks more often than the drain lasts, and the limits of the
stages add up to less than the limit of the whole. Both are conditions on the
configuration: outside of production the drain is 0 by default, and a balancer may then
meet a closed port.

| Theorem | Says |
|---|---|
| `TypeCorrect` | every variable keeps its type |
| `ReadyRightHolds` | a process that says it is ready has all its parts; one that stops refuses nobody |
| `WorkFindsPartsHolds` | requests, jobs and clients find the parts they need |
| `ForcedOnlyHeldHolds` | a stop is forced only when something without a limit held it |

`PartsOf` says at which stages each part is there, `WorkOf` at which there can be work;
`Balanced` that a balancer that still sends will ask before the drain ends; `Timely` what
time a stage has used up as long as `waited` is 0.

Its second part is about **`Sockets`**, for any users, sessions, connections, life of
tokens, grace and number of failures (`SocketsAssumption`, `SocketTimesAssumption`: tokens
and the grace have a length).

| Theorem | Says |
|---|---|
| `SocketsTypeCorrect` | every variable keeps its type |
| `EndedConnectionsClose` | a watched connection is closed in time after its session ended |
| `RevokedMembersLeave` | who lost the right of the room is out of it when its reviews are over, late comers apart |

`TimeInv` says of each connection that only a watched one has timers (`Watched`); that one
of its two timers runs, the one of the grace from when the one of the expiry was due, and
that the clock has not passed it (`Timed`); and that the token it holds, and one that an
`auth:refresh` verified and has yet to use, may have been issued for its session, so that
it expires no later than a token's life after the end of the session (`Tokens`). From
these the bound of `EndedSocketsClose` is arithmetic. `Reviewed`: a member without the
right is `late`, or there is a review that will still list the room, or has found the
connection and is to put it out; `Undecided`, that a review which has not asked yet has
not granted, keeps the answer of an earlier loss out of a later one.

Only model-checked: the two liveness properties, `FilesSettle` and `Exits`. They need
fairness and `ENABLED`, which are out of the prover's reach, as is induction over data; no
module uses a RECURSIVE operator. All safety properties that the runs check are theorems.

## 5. Abstractions and what is not modelled

- A token is a model value with its claims; signing, hashing, parsing, wording and
  transport are left out. Clocks of replicas are taken to agree.
- Awaits that only yield to microtasks, without I/O, are not interruption points.
- `Sessions` and `Privileges` take the marks as one linearizable store. That a privileges
  mark may be overwritten by an older one is left to `RevocationList`.
- `RevocationList` has one user; the 10 000-entry limit of the cache, which only makes
  lookups more frequent, is left out.
- `FileLifecycle` has one file: batches of the periodic jobs are one element long, and
  the end of a batch by the failure of another file is the failure of this one. `adopt`
  and `registerStored`, which nothing in the repository calls, are left out. The grace
  period of the collector is left out, which allows more behaviours. The local storage
  handles one wrong-sized PUT at a time.
- `AuthAttempts` has one account. `signUp`, one INSERT and a login, is left out. The
  store in the memory of a single replica behaves like Redis without crashes. A request
  whose precondition fails ends without effect, so it is not enabled.
- `Accounts` has one user, who is not deleted. Telephone number and username, which are
  checked and written as the address is, are left out, with the notices to the old
  address. A code is a model value, so two codes never coincide.
- `Challenges` has one user. What an authenticator signs is left open, and its counter is
  not followed: the platforms leave it at 0.
- `Sockets` has one list room, whose right is the only one that changes. Rooms of
  providers and rooms with an entity are left out, and so are `joinRoom` and `leaveRoom`,
  which nothing calls. Timers fire on time: the clock waits for them. A connection that
  comes back is a new one.
- `Presence` has one user. The store in the memory of a single replica is the one in Redis
  without failures. Whom the events reach (`presence:get`, privacy settings, audiences) is
  left out: it is read from tables when the event is handled.
- `Throttle` has one client of one route. `koa-ratelimit` is external and may answer
  anything; its own counters are not followed.
- `AuditTrail` has one key and one reader. The filters of the trail and the page of keys
  read the same rows.
- `AppLifecycle` has one process; another one appears where it holds the migrations lock.
  Schedules and the administration of queues are left out of the queue.
- Not modelled: `core/redis/live-store.ts` and `core/db/pg-signals.ts` are base classes
  that nothing in the repository instantiates, so there is no caller whose steps could
  interleave. Mail, media conversion, archives, DTO validation, controllers, generated
  routes and documentation, configuration, templates and scripts have no state that
  several steps share. They make up most of the repository's lines, which is why the
  specifications, which cover the stateful rest, stand for a seventh of them.

## 6. Plan

Done: the modules of section 2, with the proofs of section 4. What would come next:

1. Rooms with an entity, whose right is read from tables, in `Sockets`.
2. Batches of several files in `FileLifecycle`, where the failure of one ends the others.
3. The composition of `AppLifecycle` with `Presence`: replicas that stop one after the
   other while their clients reconnect.
