# Verification of be-modami-auth-service

TLA+ models of the authentication service, the TLC runs that check them and the
TLAPS proofs of what matters most. Source paths are relative to `src/`.

The service keeps almost no state of its own. It sequences calls to Keycloak
(users, passwords, roles, sessions), Redis (one-time codes, reset tokens, a
register lock, login states), Kafka (user events in and out) and SMTP. Nothing
spans two calls: no transaction, no compare-and-set but one `SETNX`, no fencing.
Everything hard about it is what may happen **between two of its calls**, so the
modules have one action per remote call, and a call may fail before it takes
effect, or take effect and lose its reply.

## 1. Inventory

| Part | Code | State | Operations | What is hard |
|---|---|---|---|---|
| One-time codes | `pkg/auth/otp.go`, `verifyAndDeleteOTP` of `internal/usecase/otp.go` | Redis: a code with a retry counter per purpose and e-mail | StoreOTP, ValidateOTP, DeleteOTP | read, increment and delete are separate calls; their errors are ignored; a resend in between |
| Admin token | `internal/usecase/keycloak.go` | a token, its expiry, a mutex | getAdminToken, Ping, the role and user calls | mutex held across a login; expiry dated from the reply; use after a check; readiness asks the cache |
| Registration | `internal/usecase/otp.go`, `auth_keycloak.go` | the code, a lock with a TTL (Redis), the user (Keycloak) | SendOTP, VerifyOTP, RegisterWithVerifiedEmail, Register | lock shorter than its section; unconditional unlock; no roll-back of a half-made user |
| Password reset, change | the same, `pkg/auth/reset_token.go` | code, reset tokens (Redis), passwords (Keycloak) | SendOTP, VerifyOTP, Generate, Validate, ResetPassword, ForgotPassword, ChangePassword | token read and deleted in two steps, spent before it has its effect; an e-mail that changes hands; sends that overtake each other |
| Social login | `auth_keycloak.go` 155-256, `handler/auth.go` | a state per login (Redis), codes (Keycloak) | SocialLoginURL, ExchangeCode | state read and deleted in two steps; the event after the exchange |
| Profile and e-mail | `auth_keycloak.go` 342-409, `afterVerifyChangeEmail` of `internal/usecase/otp.go` | Keycloak's user record, the code for a new e-mail | UpdateProfile, SendOTP, VerifyOTP, UpdateUserEmail | read, change, write back the whole record, the mark emailVerified too; a code bound to the e-mail, not to the user |
| Mail | `pkg/email/email.go` | none | SendOTPEmail | no deadline; a mail that goes out although the call fails |
| CDC consumer | `internal/consumer/user_cdc_consumer.go`, `connection.go` | offsets, a polled batch, the producer's buffer | Start, run, processRecord, Close | commit before delivery; a fetch error drops a batch; Close does not wait |
| Routes, middleware, roles | `router.go`, `middleware/`, `handler/`, `usecase/auth.go` | the claims in a request; roles, sessions, tokens (Keycloak) | login, refresh, logout, me, admin routes | claims are a copy that grows old; the routes without middleware |
| Start, readiness, shutdown | `cmd/server/`, `handler/health.go` | connections, health checks, the server | initConnections, Run, Close, Readiness | optional dependencies; signals; two deadlines, and a flush of the logger with none |

They meet in Redis and Keycloak, not in memory: the only shared memory is the
token cache, behind its mutex, which every Keycloak operation of the other parts
goes through, and the Kafka producer, shared by the CDC consumer and social
login. `initConnections` wires everything, `router.go` leads requests to it.

What makes each part correct:

* codes: guesses are counted and limited, a code is used once, nobody is locked
  out early;
* admin token: one login at a time, tokens outlive their use, every caller is
  answered, and "ready" tells of a Keycloak that was there not long ago;
* registration: one account per e-mail and user name, true answers, no
  request told to wait for a registration that nobody makes;
* reset: only the owner of the e-mail sets the password, once per token, and the
  answers are true;
* social login: one entry per state, one event per login;
* profile: an answered update stays, and an e-mail is marked as verified only when
  it was;
* CDC: nothing committed is lost unnoticed, states of a user in order;
* HTTP: roles come from admins, answers tell the effect, a logout is final for what
  comes after it;
* life cycle: no connection closes under a request, exit status and readiness
  are true, a signal ends the work and a second one the process.

`PROJECT.json` lists the hazards of each with line and property.

## 2. Modules

Every module has `Init`, one action per call or handler branch, `Next`, `Spec`, one type
invariant and its properties (in `Lifecycle` with `Process` in front, because
`ServerProofs` reads it beside `HttpApi`); `MC<Module>.tla` adds symmetry sets and
instance data only. Definitions described as a form the code must *not* take ("... first
without the delete", "an error dropped") stand beside the real ones; no next-state
relation uses them. They are the bugs with which each property is shown to be able to
fail.

| Module | Correspondence |
|---|---|
| `OtpService` | `otp[k]` is the Redis document. `ValidateOTP` is `Read*` (GetJSON and the branch taken), then `Increment`, `Evict` or `Consume`, each with its failing form. `seen` is `data.Retry`. `ledger` and `fresh` are history: what happened to the document a key holds now, and who read that very document. |
| `TokenSource` | Abstract: a call is answered with a token that outlives its use, or with an error. |
| `AdminToken` | `cached` is `cachedToken` with `tokenExpiry`; `mu` the mutex. `Issue` and `Reply` are apart, because Keycloak dates the token from the first, the process from the second. `Finish` ends the caller's use. Implements `TokenSource` under the mapping `View`. |
| `Registration` | `path` tells SendOTP, VerifyOTP and the direct Register apart, `pc` the next call. `lock[e]` names who set the lock, which the code does not know (its value is `"1"`). A user is named by the request that created it. Retries of the OTP are `OtpService`'s; a code is there or not. |
| `EmailCode` | What SendOTP and VerifyOTP do for every purpose: store, mail, show, compare, delete. `code[e]` is the key `otp:<purpose>:<e>`; a code is named by the request that generated it, so the mails of two sends can be told apart. `mailed` is history. Has no `Next`: the two modules below extend it. |
| `OneTimeSecret` | Abstract: clients let in with a secret side by side, nobody once it is crossed out or has run out. |
| `PasswordReset` | Extends `EmailCode` with purpose forgot-password, adds the tokens, ForgotPassword with the link Keycloak mails (`Links`, `FollowLink`) and ChangePassword. Codes, tokens and passwords are named by the request that made them, so a password tells which reset set it, the reset which token, the token which code. A request is of any kind. The tokens implement `OneTimeSecret` under `Secrets`. |
| `SocialLogin` | A state is named by its login, a code likewise; `None` is one that nobody handed out. Callbacks bring any pair. The event of a login may get lost on its way to Kafka, which the answer does not tell. The states implement `OneTimeSecret` under `Secrets`. |
| `Profile` | Extends `EmailCode` with purpose change-email. `copy` is the record that a request has read; `Changed` the one it writes; `ask` the fields it wants, for a code the three that UpdateUserEmail sets. |
| `UserCdc` | Records and events are named by partition and offset. `pos` is what was polled, `batch` what EachRecord has left, `outbox` the producer's buffer per topic. A poll (`Fetched`) returns a stretch of each partition, the partitions in any order. `lost` and `late` are history. A rebalance (`Assign`) comes at any time of the loop, for the client rebalances in the background. A topic here stands for one partition of the output: Kafka orders by key, and the properties are about the states of one user, which share a key. |
| `HttpApi` | `claims` is what the middleware put into the context, `token` the claims that Keycloak signed. A call is two steps, what Keycloak does (`granted`, `refused`) and what the service answers (`Reply`); `CallFails` comes before the first or, a reply lost, between the two. `effect` and `late` are history: who changed something in Keycloak, and who came after the 204 of the logout of its session. Routes that differ only in data are one. |
| `Lifecycle` | `stage` is what the main goroutine does next, on the way down drain, close (`app.Close`) and flush (`logger.Shutdown`); `linked` what the start connected, `open` what Close has left, `checks` the health checks as they were added. `left` is the copy of them that a readiness request works through, `phase` and `reply` its progress and answer, `sawUp` (history) what worked at some time of it. |

Outside the source, and marked `external` in `PROJECT.json`: Keycloak (unique e-mails
and user names, codes taken once, sessions, the signature of tokens), Redis
(`GET`, `SET`, `DEL`, `SETNX`, TTLs; each atomic), the consumer group and the
producer of Kafka, the end of a process. In `AdminToken` a step of the clock is one
unit; `Margin`, `Lifetime` and the latencies are in that unit.

How the modules meet. `OtpService` looks at one code closely (counter, lockout);
`Registration`, and `EmailCode` for the other two purposes, take from it only that a
code is there, matches or does not, and may vanish at any time: `ExpireCode`
covers the lockout, which deletes the key, as well as the TTL. Every use of Keycloak by
an admin token goes through `AdminToken`; elsewhere a call that gets none is a failed
call. The purposes have keys of their own (`buildKey`), so `PasswordReset`, `Profile`
and `Registration` do not share a code. `Profile`'s
handlers, the change of a password and the codes for change-email stand behind the check of claims that
`HttpApi` shows to answer 401 always (`BearerLetIn`); the modules show what those
handlers do once a request gets through to them.

## 3. Runs

`CHECK_DEADLOCK FALSE` stands where requests are one-shot, the events are finite or
the process ends: the system may really stop. It is on for `otp` and `admin_token`.

| Run | Bounds | Shows |
|---|---|---|
| `otp` | 2 requests that repeat, 1 key, 2 codes, the real limit 5, 2 faults | counter, guesses, early lockout, reuse, under every interleaving of two validations with resends and expiry |
| `admin_token` | 2 callers, lifetimes 4 and 6, margin 3, latency 2, use 1, 9 units of time | a second login within the run, so a full life of the cache; how long the cache hides an outage; liveness under `FairSpec` |
| `registration` | 4 requests, 2 e-mails, 1 name, 2 faults | two in the section, a third to disturb them and a fourth that is told to wait; conflicts by e-mail and by name; a failed unlock after a failed call |
| `reset` | 4 requests of any kind, 2 users, 1 e-mail, 1 fault, 2 changes of owner | send, verify, reset and one more request of any kind (a second reset with the token, a second send, a link); the e-mail is dropped by one user and taken by the other in between |
| `social` | 2 logins, 3 callbacks, an allowed and a foreign provider, 1 fault | mixed, unknown and missing states and codes, overlap and reuse |
| `profile` | 4 requests of any kind, each update of one field or none, 2 users, 2 new e-mails, 1 fault | send, verify and two updates that overlap it; two sends that overtake each other; a mark that outlives its e-mail |
| `cdc` | 2 workers, 2 partitions with 2 records together, of one user or two, 1 fault, 1 rebalance or shutdown, `FairSpec` | hand-over with a full buffer, repeats, restarts, a fetch that drops another partition; everything is published in the end |
| `http` | 4 requests, 2 users, 1 fault | login, then an admin act, then the same with a token grown old; a refresh granted before a logout and answered after its 204; an effect behind a lost reply |
| `lifecycle` | 2 requests that may hang, 2 signals, any initial outage and one change, `FairSpec` | all 2^3 choices of optional parts, both deadlines, a close or a flush that hangs; the work ends, and with a second signal the process |

Each property needs at most two actors at work and a third event (a resend, a fault,
an expiry) to be broken, after what leads up to it; the bounds leave room for that.
In `reset` two users and one e-mail make the only hand-over there is; a chain from
password to mailed code is three requests, the fourth disturbs it. Each is also
shown to fail in a mutant of the code, so the runs do reach the cases they are about.
`MaxFaults`, `MaxMoves`, `MaxChanges`, `MaxTime` and `MaxLog` are the bounds; expiry
and resends are not bounded. In `EmailCode` and its extensions a failing call is
counted only where its outcome differs from what the call would have said anyway.

Where a run checks liveness it uses no symmetry set.

### Disagreements found

Runs that expect a violation; each quotes its line in `PROJECT.json`.

| Run | The text says | The code does |
|---|---|---|
| `otp_five` | at most five wrong guesses (`docs/OTP_REDIS_INTEGRATION.md:5`) | more, when validations overlap: both read the count before either writes it |
| `change_password` | changes the password (`handler/auth.go:221`) | never: the user name goes where Keycloak needs a user ID |
| `http_bearer` | /auth/me takes a bearer token (`docs/INTERGRATE.md:315`) | no middleware reads it on that group: always 401 |

Seen on the way, part of the models, and without a run of their own, because a
property above already says what does hold:

| Text | Code | What holds |
|---|---|---|
| `docs/OTP_REDIS_INTEGRATION.md:5`, a key is locked after five wrong guesses | `pkg/auth/otp.go:93`, the delete of an old decision removes a fresh code | `NoEarlyLockout` |
| `docs/OTP_REDIS_INTEGRATION.md:331`, "max retry exceeded": key deleted | `otp.go:85`, the error of the delete is ignored | `RetryAccounting` |
| `handler/health.go:41`, ready: Keycloak is healthy | `keycloak.go:149`, a cached token answers; Redis and Kafka count too (`connection.go:73`) | `ReadyIsRecent`, of Keycloak; `ReadyMeansReached`, of the stores |
| `auth_keycloak.go:341`, the e-mail is marked as verified | line 399, UpdateProfile puts another e-mail and leaves the mark | `EmailShown` |
| `pkg/email/email.go:165`, the code expires in 10 minutes | `pkg/auth/otp.go:49`, one for register after 60 s | not modelled (a text) |
| `docs/OTP_REDIS_INTEGRATION.md:154`, the e-mail must not exist | `otp.go:67` of `usecase`, a failed lookup counts as absent | `AtMostOneRegistered` |
| `docs/OTP_REDIS_INTEGRATION.md:245`, a lock of 30 s per registration | `otp.go:178`, whoever fails deletes the lock of whoever holds it | `LockExcludes` |
| `pkg/auth/reset_token.go:42`, `auth_keycloak.go:202`, one-time use | read and delete are two calls | `ImplementsOneTimeSecret`, of both |
| `docs/INTERGRATE.md:678`, topic with the environment in front | `auth_keycloak.go:244`, without | not modelled (the topic's name) |
| `docs/INTERGRATE.md:360`, only the fields sent change | `auth_keycloak.go:388`, the whole record is written back | `LostOnlyByOverlap` |
| `user_cdc_consumer.go:42`, re-publishes the events | line 101, a fetch error drops the batch of the other partitions | `CommittedAccounted`, with `lost` |
| `docs/INTERGRATE.md:693`, no OTP routes without Redis | `router.go:61`, they are there, and the first call panics | `UseOtp` of `Lifecycle` |

## 4. Fairness

* `AdminToken`: strong fairness of getting the lock (Go's mutex hands it to a waiter
  that has starved for 1 ms) and weak fairness of the end of a login: it is made with
  the context of a request, and ends with a reply, an error, or the end of that
  context. Keycloak need not come back.
* `UserCdc`: the group assigns its partitions, the loop goes round, the producer
  sends. Nothing makes a worker start or stay; the property is conditional on one
  worker that keeps running from some time on.
* `Lifecycle`: main takes the signal, its two timers fire, and the goroutine that waits
  for a second signal runs. A request, the close of a connection and the flush of the
  logger may hang for good: `logger.Shutdown(context.Background())` (`main.go:105`) has
  no deadline, so one signal ends the work (`SignalEndsWork`), and only a second is sure
  to end the process (`SecondSignalEnds`).

Everything else is checked without fairness. That a register lock goes at all is Redis's
TTL and no property here: a request may hang in any call or die in the section.

## 5. Proofs

For every value of the constants, from the named assumptions in the modules only: any
number of requests, users, e-mails, workers, partitions, faults and moves. Each proof
module defines an inductive invariant `IInv` (`LifeInv` for the process), a conjunction
of named parts, and shows that it holds at the start (`InitInv`), that every step
preserves it (`StepInv`, one lemma per part) and that it implies the property. TLC has
checked each `IInv` on the module's run too. Listed theorems and the properties they
state are in `PROJECT.json`.

Three lemmas carry most of the proofs of one-shot requests: a step of a request touches
only its own row (`ActRows`), so a row stays or its own request has moved (`RowOrAct`),
and what a request has shown or been given is not taken back (`Stays`, `HoldsStays`).

* `OtpServiceProofs`. The inductive invariant adds to the types that a request that
  is fresh has a live key, is at a call, and has seen a count that the ledger
  explains; and that `accepted` and `guesses` match those still at work.
  `RetryAccounting` is itself inductive with these; `GuessBound` follows from it
  with the fact that the requests at work are at most all of them (why `Req` is
  assumed finite), `NoEarlyLockout` from `seen`.
* `AdminTokenProofs`. The invariant says who holds the mutex, what a caller that
  logs in has been given, and that a token in the cache is believed in for at most
  the latency longer than it lives. `HeldAlive` then needs
  `MaxLatency + MaxUse <= Margin`. `ImplementsSource` maps `ReturnCached` and `Reply`
  to `Grant`, `LoginFails` to `Refuse`, the rest of the login to stuttering; each
  token in hand or in the cache must have been signed at a time between 0 and now
  with one of the lifetimes, which the invariant carries. `ReadyIsRecent` rests on
  `HeardInv`: each token in the cache or in hand was signed no later than Keycloak was
  last heard, and a cached one is believed in for its lifetime less the margin from its
  arrival. The assumption that
  lifetimes exceed latency and use is what `Grant` needs after a `Reply`.
* `RegistrationProofs`. The invariant ties a user to the stage of its request, names
  the holder of each lock (a request in the section holds it or has lapsed), and
  counts a lapse only when the lock ran out or was deleted by somebody who had lost
  it. `AtMostOneRegistered` rests on Keycloak's uniqueness, not on the lock;
  `LockExcludes` is what the lock adds. `BusyForAReason` is not inductive: a lock may be
  left by somebody whose answer is not yet written. The part `LockInCharge` says that
  whoever has set a lock is `InCharge`: still in the section, or at an end that
  leaves the lock to its TTL, that is registered, failed with the reply of the `SETNX` or
  the unlock lost, or dead.
* `PasswordResetProofs`. `Stage` says what a request has in hand by its next call: a
  verification a code mailed to its e-mail, a reset a token issued for its target. With
  `CodeOfEmail` (a code is stored under the e-mail it is mailed to), `Tokens` and
  `PasswordsSet` the chain password, reset, token, code of `PasswordTraceable` holds link
  by link; a change of owner breaks none, for each link names the user of its own time.
  `AnswerIsTrue` needs `TokensGo`: while no call fails, an issued token is stored, has
  run out or is in the hands of a reset that goes on. `TokensAreOneTimeSecrets` maps the
  read of a token to `LetIn`, its deletion to crossing out, its TTL to `RunOut` and
  every other step to a stutter; `CrossedOut` is what it needs of the state.
* `SocialLoginProofs`. The same refinement for states, and `StatesGo` and `CodesGo`, where
  a state or a code can have gone, for `RejectedForAReason`. Events match because only an
  exchange makes one, and a callback at the exchange still has the provider of its state
  (`CallbackStages`).
* `ProfileProofs`. `LostOnlyByOverlap` speaks of the record only; the copies in the hands
  of requests have to keep their share. `WritesInForce` says of the record, and of each
  copy for the writes made before its read, that the fields asked for are there or
  excused, and `EmailsProved` says the same of shown e-mails. `Readers` is the lemma that
  a copy is the record at the time of its read.
* `UserCdcProofs`. `FirstInOrder` is about what has arrived; for it to be preserved the
  buffers, the batches, the positions and the committed offsets must keep the order
  too (`OutboxInOrder`, `BatchInOrder`, `PolledSent`, `CommittedSent`). The last is where
  `late` comes in: what was committed is published, or in the buffer of the worker that
  has the partitions. `CommittedAccounted` follows from it with `LateAccounted`, so the
  proofs cover any number of rebalances, faults and workers. `PartAssumption` (finitely
  many partitions) is what makes a poll a finite sequence.
* `ServerProofs`, first `HttpApi`. `TokensFromSessions` follows a token to the login of
  its session, and says that it names an admin only if the user has been one; `Stages`
  says what OIDC and the role check have established by the time a handler runs.
  `Granted` says that a change is made when Keycloak grants it and by nothing else.
  `LogoutIsFinal` needs `Ended`, a session that a logout ended is not in `session` again,
  and `Late`: a request that comes after the 204 is never granted. `AnswersTellEffects`
  needs that a fault hides one effect at most, which is a fact about cardinalities
  (`StepHidden`).
* `ServerProofs`, then `Lifecycle`, the process those requests run in (the two share no
  names, so one module can speak of both; the invariant is `LifeInv`). `WorkBeforeClose`
  and `ExitZeroMeansServed` rest on `WayDown` (nothing is closed before `"close"`, no request
  arrives after the drain has begun, none is left when it ends, and so none while the
  connections close and the logger is flushed). `ReadyMeansReached` needs
  the start and the request together: `Watched` (each store is checked from the moment it
  is connected), `Unheard` (a request copies the checks when no more are added) and
  `Reached` (a check that this request no longer has before it found its store working
  since the request came). The lemmas on suffixes say what one turn of the loop of
  `Readiness` takes from the copy. `BootInv` is the step all stages of the start share.

Model-checked only is liveness: the fairness of `ImplementsTokenSource`,
`EventuallyPublished`, `SignalEndsWork` and `SecondSignalEnds`, which is out of the
prover's reach. The
disagreements of section 3 are counterexamples, for which one instance is enough.

## 6. Not modelled

The text of mail (its transport is one call, `MailCode`), configuration, SQL migrations
(one step of `Lifecycle`), the audit log repository (wired nowhere), payload fields,
DTOs, Swagger and CORS carry no behaviour a property here is about, and neither do
`RequireClientRole`, `SendPasswordResetEmail` and `SendEmailVerificationEmail`, which
nothing calls. That a new password leaves old sessions alive is a matter of Keycloak's
policy, which the code neither reads nor sets. A Kafka that is
missing at the start leaves a nil `*KafkaService` in a non-nil interface
(`connection.go:97`); what a call of it does is decided in a library, so it is listed
as a hazard and not modelled. Real time is in `AdminToken` only; elsewhere a TTL may
run out at any moment, which includes the times it really does.

What a property permits is as much part of it as what it forbids. `NoEarlyLockout` is
about a request whose document is still the stored one, and forbids a lockout before the
last try; that an old decision deletes a fresh code is permitted, and listed among the
disagreements. `AnswerTellsEffect` permits an error after an effect where a reply was
lost (a login answered 401 that has opened a session); `LogoutFinal` permits a refresh
that Keycloak granted before the logout to be answered after it; the one-time secrets
may be used by two that overlap.

## 7. Plan

Order of importance, what is done and what is left:

1. done: `OtpService`, `AdminToken` with `TokenSource`, `Registration`;
2. done: `EmailCode` with `PasswordReset` and `Profile`, `OneTimeSecret` implemented by
   `PasswordReset` and `SocialLogin`, `UserCdc`, `HttpApi`, `Lifecycle`;
3. done: proofs of every invariant that a passing run checks, and of
   the refinements but for their fairness;
4. left, models, if they pay: `OtpService` composed with `Registration` (retries inside a
   registration), the CDC events of users that `Registration` makes, an abstract
   relay for `UserCdc`.
