# A TLA+ model of keymaster

Keymaster gives short-lived SSH and X.509 certificates to users who have
authenticated with a password and one or more second factors.  This directory
holds TLA+ modules that model parts of it, TLC configurations that check them
on small instances, and proofs, checked by TLAPS, of properties that hold for
every instance.  `PROJECT.json` maps each definition to the lines it models.

## The system

| part | code | state it keeps | what changes it |
|---|---|---|---|
| user profiles | `app.go`, `storage.go` | one row per user: tokens, pending challenge and secret, TOTP counter, bootstrap OTP | 12 handlers, each load, work, save |
| profile store | `storage.go` | primary database, local SQLite copy | save, delete, background copy |
| signed data | `storage.go` | expiring signed password hashes, in both databases | LDAP authenticator, cleanup |
| TOTP rate limit | `2fa_totp.go` | in memory: last check, failures, lockout per user | `validateUserTOTP` |
| pending authentications | `2fa_u2f.go`, `2fa_vip.go`, `auth_oauth2.go` | in memory: U2F challenges, push transactions, federated logins | sign request/response, push start/poll, redirect/callback, cleanup loop |
| sessions | `app.go`, `jwt.go` | signed cookies with a level | login, each second factor, `checkAuth` |
| certificate issuance | `certgen.go`, `lib/certgen` | none | `certGenHandler` |
| unsealing | `unseal.go`, `config.go` | signers, ready channel | manual and automatic unseal |
| admin check | `app.go`, `keymasterd/admincache` | cached group answers | `get`, `put` |
| password checks | `lib/pwauth`, `lib/authenticators/okta` | cached hashes, recent Okta answers | each login |
| events | `keymasterd/eventnotifier`, `eventmon` | channels, event lists, a file | publish, receive, record, save, expire |
| OpenID Connect provider | `idp_oidc.go` | none (signed codes and tokens) | authorization, token, userinfo |
| client | `cmd/keymaster`, `lib/client` | none that lasts | login with push and OTP at once |

net/http runs every request in a goroutine of its own.  Profiles are loaded
and saved without a lock between the two; what is in memory is guarded by
`state.Mutex` or a mutex of its own, mostly for single reads and writes.  The
primary database may be slow (the load then falls back to the local copy,
which may be old, empty, or hold deleted rows), and a save that reports an
error may have taken effect.  The daemon may stop anywhere.

What makes this correct is not local to one handler: no credential is lost or
moved by handlers that overlap, one-time values are accepted once, what is read
from the copy is never written back, locks and limits hold for concurrent
calls.  `PROJECT.json` lists the places where these could fail as hazards.

## Modules

**`UserProfile`** is the record `userProfile` and pure functions on it.
Challenges, TOTP secrets and OTPs are numbers drawn from a counter, `None` is
Go's `nil`, and only `Sha512` of an OTP is stored.  Token maps are functions
from the second of creation to a token or `Unregistered`.

**`ProfileStore`** is the table `user_profile` in the primary (`db`) and in the
local copy (`cache`), and the copy in progress (`copy`).  `LoadOutcomes` is the
set of results of `LoadUserProfile`; `CopyBegin`, `CopyCommit` and `CopyFail`
are `copyDBIntoSQLite`, whose DELETE lies outside its transaction.

**`ProfileHandlers`** is every handler that writes a profile.  A request is
three steps: `LoadUserProfile`, the handler's work on its own copy (an action
named after the handler), and the save, which succeeds (`SaveOk`) or reports an
error with or without effect (`SaveError`).  Early returns of all handlers are
the one action `EarlyReturn`, since they write nothing.  `Tick`,
`BackgroundDBCopy` and `Crash` happen between any two steps.  History variables
record what a random value was drawn for, how often it was accepted as an OTP,
and on whose row a *stale* save landed: one whose row had been written since
the handler loaded it.

**`TOTPValidation`** is `validateUserTOTP` in more detail, for one user and
concurrent calls: the section under the mutex, the reset, the comparison of
periods, the save, and the write-back of the rate-limit entry as separate
steps.  Whether a presented value is right is the environment's choice.  Other
handlers that save the profile appear as `OtherHandlerSaves`.

**`PasswordCache`** is a password login against LDAP
(`lib/pwauth/ldap/impl.go`) for one user and concurrent logins, with the
argon2 hash of the last accepted password as a row of
`expiring_signed_user_data` in the primary (`db`) and the copy (`cache`).  LDAP
accepts, refuses or is unreachable by the environment's choice; what follows
the answer (make and upsert a hash, read and delete it, read and compare it) is
a step per database call.  A hash is represented by its password.

**`PendingTable`** is one of the in-memory maps of authentications that wait
for an answer: `pending` maps a key (a user name or a cookie) to an entry with
a one-time value and `ExpiresAt`.  `Store`, `Lookup` and `performStateCleanup`
are what the code does with each of the three maps.  The handlers do not look
at `ExpiresAt`; only the cleanup loop does.  Three modules extend it:

* **`U2FSign`**: `u2fSignRequest` stores a challenge; `u2fSignResponse` looks it
  up, checks the signature, and deletes the user's entry *without* the mutex.
  The delete is a step with a beginning and an end.  If the map is written in
  between, the delete may be lost, the challenge stored meanwhile may be lost,
  or the runtime may end the process (`U2FCrash`).
* **`VIPPush`**: `vipPushStartHandler` checks for a transaction, asks the VIP
  service for a push and stores the transaction, in three steps;
  `VIPPollCheckHandler` reads the transaction and asks whether it is approved.
  Entries leave this map only through the cleanup loop.
* **`FederatedLogin`**: the redirect stores a state string under a cookie; the
  callback looks it up, exchanges the code, sets the auth cookie and removes
  the entry, each a step.

**`PendingLifecycle`** is the abstract specification of all three: a one-time
value is new, then open, then closed for good; answers claim open values only;
every open value is closed in the end.  The refinement mapping (`status` in
`PendingTable`) calls a value open while some key holds it.

**`AuthSession`** is the server's cookies as the browser sees them.  The server
keeps no sessions: a request carries the cookie the browser had when it was
sent, and the browser takes the cookie of whichever answer arrives last.  A
request is `Send`, `checkAuth`, its handler (`SecondFactor`,
`postAuthX509CertHandler`, `postAuthSSHCertHandler`, `CertRefused`) and
`Deliver`; `loginHandler` and `logoutHandler` answer at once.  Requests of one
browser overlap, and two users may share it.  `earned` and `login` in a cookie
are history.

**`OIDCProvider`** extends `AuthSession` with authorization, token and user
information.  Codes and access tokens are signed records told apart by `Type`;
any program may present any of them to any endpoint.  A redirect URL is what the
code asks of it (https, query, `..`, domain, regular expression).

**`AdminCache`** is `Get`, the lookup of the groups and `Put`, the three steps
of `IsAdminUser`, for overlapping calls about one user.  A lookup may fail, and
the old answer is then put anew.

**`OktaAuth`** is the cache of recent Okta logins and the handlers for push and
OTP, for several sessions of one user.  Okta is asked before and after the map
is locked, so each handler is two steps, and a login is two (`OktaAccepts`,
`passwordAuthenticate`).  What becomes of a push is the environment's choice.

**`Unseal`** is the start of the daemon up to serving users, with the key files,
AWS Secrets Manager, operators and `keymaster-unlocker`.  `unsealCA` is one step
per assignment while its caller holds `state.Mutex` (`readyzHandler` reads
without it); the channel `SignerIsReady` has room for one message.  The daemon
may stop anywhere and be started again.  A client CA file is assumed to be
configured.

**`LossyFeed`** is what the event pipe promises a reader: numbers in increasing
order, each at most once, some left out.  **`EventPipe`** is the notifier in the
daemon and the monitor in `keymaster-eventmond`, for one address: `Register`,
`transmitEvent` into channels of `pipeLength` (a full one is skipped),
`transmitV0`, the close notifier; the list from DNS (`updateNotifierList`),
dialling, the helper goroutine that a goroutine starts for each connection, and
the status shown to the user.  An event that is cut off when the connection
breaks is `Torn`.  Steps that touch nothing another goroutine reads in between
are merged with their neighbours: a receive and the check of what was received,
the helper taking the message and closing the connection, the two halves of
unregistering.  A dial takes the smallest free connection, which only renames
connections.  `newMonitor` is `keymaster-eventmond` killed and started again.

**`EventRecorder`** goes on from the monitor's channels: the main loop that
relays events, the recorder's loop (one action per `case`), the hourly expiry,
the delayed save, and restarts from the saved file, whose lists `LoadList` turns
around as `loadEvents` does.  The field `run` of an event, the process that
recorded it, is history.  `recordCertEvent`'s rounding of lifetimes is arithmetic on seconds.

**`EventPath`** joins the two as `keymaster-eventmond` does: what a goroutine of
the monitor receives it passes to `notify`, which may find the channel full, and
a restart ends and starts both the monitor and the recorder.  The history
`origin` says which goroutine passed an event on and with which number it was
published.

**`TokenPushClient`** is the second factor in the command-line client: the
targets one after the other, and for a push two goroutines and a timeout that
race for a channel of capacity one.  **`ClientCerts`** is what `setupCerts`
leaves in the agent and in files, over several runs that may be stopped
anywhere.

**`MCPendingAuth`**, **`MCSession`**, **`MCEvents`**, **`MCClient`** each check
components that belong together in one instance.  An initial state chooses the
component (`kind`, `part`), and only its actions are taken.  `OIDCProvider` is
also composed with `AuthSession`: its cookies come from logins and logouts of
the same browser.  In `MCEvents` the pipe and the recorder are checked beside
each other since the recorder accepts any events, in particular those of the
pipe; liveness is checked of each by itself.  In a fourth part (`SmallPath`)
they run joined, on a smaller instance and for safety only.
**`MCProfileHandlers`**, **`MCTOTPValidation`**, **`MCPasswordCache`** and
**`MCUnseal`** add nothing but symmetry sets, or nothing at all.

The modules whose name ends in `Proofs` hold the theorems.
`ProfileHandlersProofs`, `TOTPValidationProofs` and `EventPipeProofs` are about
the module named before it; `EventPathProofs` is about `EventRecorder`,
`MCEvents` and `EventPath`; `PasswordProofs` is about `PasswordCache` and
`Unseal`; `SessionProofs`, `ClientProofs` and `PendingAuthProofs` are about the
components of `MCSession`, `MCClient` and `MCPendingAuth` and about their
composition.

## Runs

| run | instance | checks |
|---|---|---|
| `profiles_own` | 1 user, 2 requests, 2 seconds, 1 random value; every handler but the TOTP token manager | `ProfilesConsistent`, `OtpAcceptedOnce`, `UndisturbedSaveKeepsRow` |
| `profiles_manage` | 2 users, 1 request at a time, 2 random values; enrolment and management of both kinds | `CredentialsIssuedToOwner`, `UndisturbedSaveKeepsRow` with tokens that can be lost |
| `totp_validation` | 2 calls, 4 seconds, period 4, reset after 2 | `OncePerPeriod`, `ChecksSpaced` |
| `totp_same_period` | 1 call at a time | violated: `PreviousSuccessNotInPeriod` |
| `totp_lockout` | 1 call at a time, 5 failures | violated: `FifthFailureLocksOut` |
| `password_cache` | 2 passwords, 2 logins, 3 seconds, rows live 1 second | `LocalHashRecent`, `DeletesOnlyRefusedHash` |
| `password_deleted` | 1 password, 1 login at a time | violated: `DeletedHashNotAccepted` |
| `pending_auth` | 2 users or cookies, 2 requests, 2 values, entries live 1 second, cleanup every 2 | `PolledIsLastPush`, `GrantedWasApproved`, `AnsweredGone`, `FoundInTime`, `PendingKept`, `ImplementsLifecycle` |
| `session` | 2 users of a browser, 2 requests, cookies live 1 second, certificates 2; 2 programs, 5 kinds of URL, 2 tokens; 2 calls of `IsAdminUser`, 2 changes | `LevelsEarned`, `CertsEndAfterLogin`, `AccessFollowsLogin`, `AnswersFollowGroups` |
| `unseal` | 2 operators, AWS, the unlocker, every kind of key file, 1 restart | `ServingIsComplete`, `SendNeverBlocks`, `AllSignersOrNone`, `SignerIsAnnounced`, `EventuallyServing` |
| `events` | pipe: 2 goroutines, 2 connections, channels of 1, 2 events (1 when goroutines overlap); recorder: 1 user, 2 types, 2 events, 4 hours, 2 restarts, a month of 1 hour; both joined: 2 goroutines after each other, 1 connection, 2 events of 1 type, 1 restart | `MCTypeOK`, `ListedAsPublished`, `FeedsInOrder`, `ListedIsMonitored`, `ConnectedAgain`, `DeadUnregistered`, `ListingIsCurrent`, `ForgottenInTime`, `ListedAsHappened`, `RestartLosesOnlyUnsaved`, `EventuallySaved` |
| `client` | 2 sessions and 2 logins at Okta; 2 targets, timeout of 2; 2 runs that write files | `RaisedRightfully`, `OwnTransaction`, `SuccessMeansRaised`, `ClientEnds`, `SuccessLeavesPairs` |

Why the bounds are enough.  Two seconds are enough for two tokens with
different keys, for two tokens in one second, and for an OTP to expire; two
requests for every overlap of a load with another handler's save.  In
`totp_validation` a period is long enough for two checks that the rate limit
lets through, and the clock enters the next period.  In `password_cache` two
passwords are an old and a new one, and a row can be written, expire and be
cleaned up before the clock ends.  In `pending_auth` values are stored until
second `LastIssue`, and the clock goes on until the last of them must have been
cleaned up, so the bound does not cut liveness short.  In `session` a cookie can
expire while a request with it is under way, and an entry of the admin cache can
expire twice.  In `events` a channel of one overflows at the second event, a
second goroutine is started before the first has stopped, and events expire
between two saves; where pipe and recorder are joined, two events are enough for
a wrong order or a repetition, and the recorder's timers stand still, since
expiry only takes events out of a list and a save leaves it alone; in `client`
the second target is tried while goroutines of the first are left.  Where a
property is also a theorem (see below) the bounds do not matter to it.

The properties:

* `ProfilesConsistent`: in every copy of a profile there is, stored, copied or
  in a handler's hands, no challenge or secret enrols two tokens or stays
  pending after it enrolled one, and a profile with tokens is marked as having
  registered a second factor.
* `CredentialsIssuedToOwner`: every credential in a profile was drawn for that
  user and that use.
* `OtpAcceptedOnce`: a bootstrap OTP is accepted a second time only if a stale
  save landed on that user's row.
* `UndisturbedSaveKeepsRow`: a save that is not stale takes from the row no
  token except the one its request is about, and never the mark.
* `OncePerPeriod`: a second success in one TOTP period has one of three causes:
  a success on a profile from the local copy, a stale save, or a call whose
  time was taken in an earlier period than the recorded one.
* `ChecksSpaced`: checks are two seconds apart unless a stale write-back of the
  rate-limit entry put an older time back.
* `LocalHashRecent`: a hash consulted while LDAP is unreachable is of a password
  that a login recorded less than `expirationDuration` ago, whichever database
  it is read from and whichever upserts and copies overlapped.
* `DeletesOnlyRefusedHash`: a refused login deletes the hash of another
  password only if the row it read came from the copy or was written since.
* `AnsweredGone`: a U2F challenge, or a pending federated login, that was
  answered and removed is not found again, unless the removal of a challenge
  raced with another write of the map.
* `FoundInTime`: a challenge is found no later than `secsBetweenCleanup` seconds
  after it expired.
* `PendingKept`: an unexpired entry is removed only by what it waits for: a
  challenge by an accepted answer to it (or to an older one of the same user, or
  one whose unlocked removal overlapped with its storing), a login by its
  success, a push by nothing (unless start requests overlapped).
* `PolledIsLastPush`: polls of a cookie are about the last push sent for it,
  unless two start requests for the cookie overlapped.
* `GrantedWasApproved`: a session gets the VIP level only after the user
  approved a push sent for its cookie.
* `ImplementsLifecycle`: each table implements `PendingLifecycle`, liveness
  included.
* `LevelsEarned`: every level of a cookie was checked for its user and since its
  login, except cookies raised by a request with a client certificate.
* `CertsEndAfterLogin`: a certificate ends within `maxCertificateLifetime` of
  the login, but for the time the handler took; where passwords are enough for
  certificates, of the certificate it was got with.
* `AccessFollowsLogin`: a program gets an access token only for a code made for
  it; the token ends within two cookie lifetimes of the login, and user
  information is given only for such a token in its time.
* `AnswersFollowGroups`: `IsAdminUser` follows a change of the groups in less
  than `maxDuration` plus the slowest lookup, unless a lookup failed since; who
  was never an administrator is never taken for one.
* `ServingIsComplete`, `AllSignersOrNone`: users are served only with
  everything the handlers read, and whenever the mutex is free the signers are
  all there or none is (a bad CA key leaves the Ed25519 signer set).
* `SendNeverBlocks`: the message that the signer is ready finds room, so nobody
  waits with the mutex held.  `SignerIsAnnounced`: it is not lost either: until
  main has received it, a daemon with a signer and a free mutex has the message
  in the channel, however early it was sent.
* `EventuallyServing`: with usable keys and somebody who has the password the
  daemon ends up serving, or its setup fails.
* `FeedsInOrder`: the pipe implements `LossyFeed`.
* `ListedIsMonitored`: the goroutine of a listed address never waits for a
  helper that is gone, and the status is right while it reads, unless it was
  started before its predecessor had stopped.
* `ConnectedAgain`: a daemon that stays ready and listed is connected to again
  and again.  `DeadUnregistered`: the daemon forgets a connection that is gone.
* `ListingIsCurrent`: a kept listing is what the lists hold now.
  `ForgottenInTime`: no event is kept longer than two months and an hour.
  `ListedAsHappened`: events are listed in the order of their types' channels,
  and full hours or minutes of a lifetime survive a late recording.
  `EventuallySaved`: what is listed ends up in the file unless the last save
  failed.
* `RestartLosesOnlyUnsaved`: a restart loses no recent event unless the save
  timer was running or the last save had failed, although `loadEvents` turns the
  lists around.
* `ListedAsPublished`: what a process has recorded of one type is listed in the
  order in which the daemon published it, and nothing twice, whatever was lost on
  the way.  The exception is events that came through goroutines of the monitor
  that overlapped, which may both deliver an event.
* `RaisedRightfully`: an Okta level is raised only through a login valid when it
  was looked up, and by a push only if approved.  `OwnTransaction`: by the
  session's own transaction unless another login of the user overlapped or
  followed.
* `SuccessMeansRaised`: the client takes an attempt for a success only if its
  cookie was raised, passwords are enough, or the server refused a code or a
  signature (those functions return no error then).
* `ClientEnds`: the client comes to an end except where it waits for a key or a
  typed TOTP, and leaves no goroutine with a result unless it gave up on both.
* `SuccessLeavesPairs`: when the client reports success, keys and certificates
  in the agent and in files belong together, whatever earlier runs left.

Three runs show that the code does something else than its comments or documents
say; the findings in `PROJECT.json` quote them.  In the first, a TOTP value of
the same period is accepted again because the success on a profile from the copy
is not recorded.  In the second, the lockout of the fifth failure never comes:
`lockoutExpirationTime.Add(...)` is computed and its result dropped.  In the
third, a hash deleted from the primary after LDAP refused its password stays in
the local copy, which is only ever added to, and is accepted from there.

### Fairness and deadlock

* Pending tables: weak fairness of the cleanup loop and of the clock, and the
  loop wakes up in the second in which its sleep ends (the clock waits for it).
  The loop only locks a mutex, which no handler holds while it waits for
  anything, and sleeps; `FoundInTime` is exact only to the extent that the
  scheduler wakes it in time.
* `Unseal`: weak fairness of the daemon's goroutines and of whoever is inside
  `unsealCA`; strong fairness of getting the mutex (Go's mutex does not starve a
  waiter); the unlocker tries for ever, as its loop does; strong fairness of an
  answer of AWS, which is not out of order for ever.  Operators need do nothing.
* `EventPipe`: weak fairness of each goroutine, strong fairness of a dial that
  could succeed again and again.  Nothing is assumed about connections or DNS.
* `EventRecorder`: weak fairness of both loops and of the timers.
* `TokenPushClient`: weak fairness of the clock, of the client and of goroutines
  with a result to send; nobody has to type a code or approve a push, and
  requests of the goroutines need not be answered.

All other properties are safety properties and assume no fairness.  Deadlock is
checked in every run but `events` and `client`: a pipe that has used up its
events and goroutines stops, and so does a client that is done.

## Proofs

Each theorem says that a specification implies the property, for every value of
the constants that meets the named assumptions.  Each module first proves its
inductive invariant (the theorems whose name ends in `Invariance`; `InitInv` and
`NextInv` for `PasswordCache`), with one lemma or step per action, and the
theorems below follow from it.

| module | theorem | property | assumption on constants |
|---|---|---|---|
| `ProfileHandlersProofs` | `TypeCorrect` | `TypeOK` | there is a user, bounds are positive, the configuration is Boolean |
| | `Consistency` | `ProfilesConsistent` | |
| | `Ownership` | `CredentialsIssuedToOwner` | |
| | `AcceptedOnce` | `OtpAcceptedOnce` | |
| | `UndisturbedSaves` | `UndisturbedSaveKeepsRow` | |
| `PasswordProofs` | `TypeCorrect` | `TypeOK` | bound and duration are positive |
| | `HashRecent` | `LocalHashRecent` | |
| | `DeletesRefused` | `DeletesOnlyRefusedHash` | |
| | `UnsealTypeCorrect` | `UnsealTypeOK` | operators are none of AWS, the unlocker, nobody |
| | `SendFree` | `SendNeverBlocks` | |
| | `SignersTogether` | `AllSignersOrNone` | |
| | `CompleteService` | `ServingIsComplete` | |
| | `LoopEnds` | `LoopEndsUnsealed` | |
| | `NoLostWakeup` | `SignerIsAnnounced` | |
| `TOTPValidationProofs` | `TypeCorrect` | `TypeOK` | bounds are natural, the period is positive |
| | `PeriodsUsedOnce` | `OncePerPeriod` | |
| | `ChecksApart` | `ChecksSpaced` | |
| `EventPipeProofs` | `PipeTypeCorrect` | `PipeTypeOK` | goroutines and connections are positive numbers |
| | `Monitored` | `ListedIsMonitored` | |
| | `FeedsOrdered` | `FeedsInOrder`, a refinement | |
| | `Successors` | `FeedsSucceed` | |
| `EventPathProofs` | `TypeCorrect` | `TypeOK` | the month and channels are positive, a certificate is recorded before it ends |
| | `CurrentListing` | `ListingIsCurrent` | |
| | `OldForgotten` | `ForgottenInTime` | |
| | `Chronicle` | `ListedAsHappened` | |
| | `SaveIsDue` | `UnsavedIsDue` | |
| | `Restored` | `RestartLosesOnlyUnsaved` | |
| | `MCTypeCorrect` | `MCTypeOK` of `MCEvents` | these and those of the pipe |
| | `EndToEnd` | `ListedAsPublished` | these and those of the pipe |
| `SessionProofs` | `LevelsAreEarned` | `LevelsEarned` | lifetimes and bounds are natural |
| | `CertsEnd` | `CertsEndAfterLogin` | |
| | `FollowsLogin` | `AccessFollowsLogin` | a code lives no longer than a cookie |
| | `FollowsGroups` | `AnswersFollowGroups` | `maxDuration` is positive |
| | `TypeCorrect` | `TypeOK` of `MCSession` | all of these |
| `ClientProofs` | `Rightful` | `RaisedRightfully` | lifetime and bound are natural |
| | `RaisedByOwn` | `OwnTransaction` | |
| | `SuccessIsRaised` | `SuccessMeansRaised` | targets are numbered from 1, there is one |
| | `ResultHasRoom` | `RoomForResult` | |
| | `SuccessPairs` | `SuccessLeavesPairs` | the bound is natural |
| | `TypeCorrect` | `TypeOK` of `MCClient` | all of these |
| `PendingAuthProofs` | `TypeCorrect` | `MCTypeOK` | `maxAge` and `secsBetweenCleanup` are positive, bounds natural |
| | `PolledLast` | `PolledIsLastPush` | |
| | `ApprovedFirst` | `GrantedWasApproved` | |
| | `AnsweredOnce` | `AnsweredGone` | |
| | `AcceptedInTime` | `FoundInTime` | |
| | `KeptUntilAnswered` | `PendingKept` | |
| | `LifecycleSafety` | the safety part of `ImplementsLifecycle`, a refinement | |

None of the properties is inductive by itself.  What the invariants add:

* `ProfileHandlers`.  `RowsInv` and `RequestInv` extend `Consistent` and `Owned`
  to all places a profile can be, and say that values not yet drawn occur
  nowhere.  `AcceptedOnce` needs more: an OTP that was accepted (`Spent`) is in
  no row of its user, and in no copy of a request that could still save it,
  unless the user is in `overlapped`; and a request about to consume an OTP
  whose copy is not stale works on the row as it is in `db` (`InSync`), so that
  the OTP was not accepted before (`GrantInv`).  `UndisturbedSaves` follows from
  `InSync` too.
* `PasswordCache`.  Every row there is, stored, copied or in a login's hands,
  expires no later than its password's last record allows (`Fresh`); what a
  login about to delete read from the primary is still the row there, or the row
  is gone (`InSync`).
* `TOTPValidation`.  `RateInv`: a call whose copy of the rate-limit entry is not
  outdated has the entry's `lastCheckTime`, which is the last time anyone passed
  unless a write-back landed on a newer entry.  `PeriodInv`: a call whose profile
  is from the primary and not outdated has its counter, so the counter only
  grows, and what was recorded or is about to be reported lies below it and
  differs.
* `Unseal`.  Who holds the mutex is inside `unsealCA`, and where it is says
  which assignments have been made (`Places`, `Assigned`); a message in the
  channel, and a main goroutine past it, mean that everything is there
  (`Announced`).  `NoLostWakeup` follows one message: until main has it, it is in
  the channel or the caller that loaded the signer is about to send it (`Told`).
* `EventPipe`.  What a goroutine has got comes before what is on its wire, that
  before what is in the channel, and that before the next event (`InChannels`,
  `InFeeds`); a listed goroutine has not been told to close and, if it was alone
  at first, nobody else writes the status (`Listing`).  Three lemmas about
  `Append`, `Tail` and the rest of a wire carry the order.  `FeedsOrdered` then
  shows that a receive is a step of `LossyFeed` and every other step a stutter or
  a publication.  For `Successors`: what a goroutine has still to get, from its
  wire and its channel, is newer than all that the stopped ones got (`Ahead`,
  `Succession`).
* `EventRecorder`.  Events of a type keep their order over two channels and the
  event that the main loop holds (`Queued`), and what this process has listed is
  older than all of them (`Ordered`).  After restarts a list may run either way,
  so expiry from the oldest end does not reach every old event.  But what was
  loaded lies within one month of itself (`Together`), and the last of the list
  is recent as of the last expiry (`LastRecent`): hence the second month in
  `ForgottenInTime`.  `SaveIsDue` is inductive with the fact that a kept listing
  is current, since that is what `saveEvents` writes.
* `EventPath`.  Every step is a step of each half or leaves it alone
  (`PathHalves`), so the invariants of both hold of the whole.  `Traced` joins
  them: each event that arrived was passed on by a goroutine, and those that came
  one at a time came by the order of publication.  `EndToEnd` combines it with
  the order of arrival in the lists (`Ordered`).
* `AuthSession`.  What a request knows after `checkAuth` still fits the cookie it
  will raise or the certificate it will get, although the browser's cookie has
  changed meanwhile (`KnowsUser`, `KnowsTime`).
* `OIDCProvider`.  A code carries its own program's challenge or none, and ends
  before the token it is good for (`CodeIsGood`, `AccessIsGood`).
* `AdminCache`.  What the directory told a call is right unless the groups have
  changed since (`Asked`), and an entry was put at most `slowest` after that
  (`Cached`).
* `OktaAuth`.  A handler works with an entry that was valid when it looked it up
  (`Handling`), and for a session that no other login overlaps or follows the
  entry, and what its handlers found, is that of its own login (`Owning`,
  `OwnCalls`).
* `TokenPushClient`.  A result of a goroutine, in its hands or in the channel of
  its attempt, is a success only if the server raised or refused that very
  target (`ResultsDeserved`); channels of former attempts stay apart.
  For `ResultHasRoom`: once the client has taken a result, one of the two
  goroutines has ended, and a channel that is full when the client is gone holds
  the result of the other (`Counted`).
* `ClientCerts`.  The step that a run is at says what it has written, and the two
  files for ed25519 are apart only between their two steps or after a run that
  ended there (`Written`, `Paired`).
* The three pending tables share `Book`: what the table holds has been stored,
  the cleanup is never late, and the next one comes in time for every entry.
  This is what makes `FoundInTime` true of handlers that do not look at the time.
* `U2FSign`.  No challenge is filed under two users (`Distinct`); a response
  knows the only user who can still have its challenge, and takes others with it
  only if its removal raced (`Known`); what was answered and removed without a
  race is not in the table (`Gone`).
* `VIPPush`.  For a cookie whose start requests never overlapped there is one
  start request at most, the table is empty meanwhile, and the push about to be
  stored is the last (`Alone`, `Clear`, `Newest`); what the table or a request
  holds is a push for its cookie (`Filed`, `Working`), and a push about to be
  stored never was (`Unfiled`).
* `FederatedLogin`.  A removal follows a login with the same cookie, and cookies
  of finished logins are not drawn again (`Numbered`, `Done`).

`LifecycleSafety` maps each step of a table to `PendingLifecycle`: storing a
value opens it and closes the one it replaces (`IssueStep`), an answer claims an
open value (`ClaimStep`), and a removal, a cleanup or a crash closes some
(`CloseStep`).  Every other step leaves the status of all values alone.

The theorems of `PendingAuthProofs`, `TypeCorrect` of `SessionProofs` and
`ClientProofs`, and `MCTypeCorrect` of `EventPathProofs` are about the
specification that the run checks; `EndToEnd` is about all of `EventPath`, and
each other one about the component's own specification.  The runs `session`, `events` and
`client` check the same properties on a behaviour of that component beside
others that stand still.

Some theorems state invariants that no run checks: type invariants, and facts
that other properties rest on.  `LoopEndsUnsealed`: the loop that asks AWS ends
only when the signer is there.  `FeedsSucceed`: a goroutine that was started when
all before it had stopped gets only events published after all that those got,
across restarts of the monitor too (`ListedAsPublished` rests on it).
`UnsavedIsDue`: an event that is listed and not in the file has the save timer
running, or its last save failed (`RestartLosesOnlyUnsaved` rests on it).
`RoomForResult`: a goroutine of the client with a result finds room in the
channel, or the client is there to take what fills it, unless it gave up (what
`ClientEnds` needs for goroutines to end).

Facts about recursive definitions are proved where the smallest counterexample
can be named: `LoadList` keeps what `loadEvents` keeps, by the well-ordering of
the natural numbers (`Smallest` in `EventPathProofs`).

Only model-checked: all liveness (`EventuallyServing`, `EventuallySaved`,
`ConnectedAgain`, `DeadUnregistered`, `ClientEnds`, and the part of
`ImplementsLifecycle` that closes every value in the end), which is out of
TLAPS' reach; and the three runs that end in a violation.  Every invariant and
every action property that a run checks is also a theorem.

## Not modelled

* IP-restricted certificates and the check of the referrer in `checkAuth`; the
  headers for browsers of other origins in the OpenID Connect provider.
* `VIPAuthHandler` and `lib/vip`: the handler keeps no state but the level of
  the session, and the library is SOAP marshalling.
* htpasswd and command authenticators, which keep no state; the in-memory
  password store, which is for tests.
* Generation of a new configuration, of keys and of the client's configuration;
  the choice of the first server the client connects to.
* Dashboards, the dependency monitor, e-mail and page templates, metrics and
  logging: they have no state that another part reads.
* Encodings (ASN.1, JWT, gob, JSON) and TLS.  Cryptography is abstract: random
  values are distinct, hashes are injective, signatures cannot be made without
  the key.
* Names of tokens, the U2F signature counter, addresses and times shown to the
  user, which are in no property.
