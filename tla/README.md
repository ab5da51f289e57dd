# Darboon in TLA+

Darboon (`apps/idp`) is an identity provider: a NestJS service that registers
users, verifies passwords, one-time codes and provider sign-ins, and answers
with signed access tokens and rotating refresh tokens. It keeps its state in
PostgreSQL (through MikroORM) and Redis, and runs as several `api` replicas
beside a `worker`. Paths below are relative to `apps/idp/src/` unless they begin
with `docs/`, `packages/` or `examples/`.

This directory models its logic where it is hard to test: **handlers are chains
of `await`s, replicas overlap, and nothing is locked.** No handler opens a
transaction that spans its reads and its writes, no row has a version column,
and Redis is used with a `GET` or `KEYS` followed by a `DEL`. Every module
follows from that: one action is the code between two awaits on a store; a
handler remembers the rows it has read (the per-request EntityManager); a flush
writes by primary key what was decided on those rows.

## Contents

1. [Inventory](#inventory)
2. [Modules](#modules)
3. [Runs](#runs)
4. [Disagreements between code and documentation](#disagreements-between-code-and-documentation)
5. [Proofs](#proofs)
6. [Not modelled](#not-modelled)
7. [What is left](#what-is-left)
8. [Running it](#running-it)

## Inventory

| Component | State | Operations | Hard behaviour | What makes it correct | Module |
|---|---|---|---|---|---|
| Refresh-token sessions `token/token.service.ts` | `refresh_tokens`: status, family, parent, expiry | issue, refresh (read, consume, mint), revoke family, revoke all of a user, reuse response | two refreshes of one token; refresh against logout, reset or reuse response; a handler that dies between consuming and minting | at most one successor; at most one usable token per session; a revoked session stays dead; nothing spent is usable again | `Sessions`, `RefreshTokens` |
| Signing keys `keys/` | `signing_keys`: NEXT, ACTIVE, RETIRING, expiry; repeatable job | bootstrap, rotate (promote, pre-publish, purge), sign, serve JWKS | replicas booting together; scheduled against administrator rotation; late or aborted rotation; an expiry set by one rotation and read at the end of another | something can sign; one signer; keys only move forward; a key verifies its tokens until it expires | `SigningKeys`, `KeyRing` |
| RBAC and claims cache `rbac/`, `admin/` | role, permission and assignment tables; `rbac:<app>:<user>` in Redis, 60 s | resolve, assign, revoke, set permissions, create and delete role, delete application, seed an assignment, invalidate | a fill that overlaps a change; KEYS then DEL; writers that invalidate nothing; death between change and invalidation | stale entries are about to be deleted, and in the end gone | `RbacCache` |
| One-time codes `otp/otp.service.ts` | `otp_codes`: attempts, consumed, created | issue with resend window, verify | two verifications of one row; lost increments; overlapping issues; older codes that resurface | accepted once; guesses bounded; few codes usable at once | `Otp` |
| Accounts `registration/`, `common/federated-identity.ts`, `credentials/` | `users`, `credentials`, `identities` | register, link or create, set password | two registrations, or registration and sign-in, of one email; death between account and credential | one account per email; every account can be opened; verified emails stay | `Accounts` |
| Seed `bootstrap/` | the console's application and role, the administrator and the assignment | seed on start of every `api` replica | replicas that start together, registrations meanwhile, death between any two steps | whoever holds the console is the administrator, and there is one | `Accounts` |
| Password login, lockout, MFA `auth/`, `users/`, `mfa/`, `otp/otp-auth.service.ts` | failure counter, lock, status; challenge in Redis | password grant, OTP grant, block, unlock | lost increments, stale user row, challenge consumed twice | guessing gets slower; locks and blocks stand; a challenge completes once; disabled accounts stay out | `Login` |
| Verification and recovery `registration/`, `credentials/` | `verification_tokens`, verified flags, password, sessions | confirm an email or a phone, forgot, reset | a link used twice; a login or refresh in flight during a reset; death between password and sessions; two first passwords | a link works once and is not wasted; a reset ends earlier sessions; one credential | `Recovery` |
| Notification queue `notification/` | BullMQ jobs | enqueue, process, retry | at-least-once delivery: lost answers, dead workers | a message is sent once unless an outcome was lost, boundedly often then, and never tried for ever | `Notifications`, composed in `Recovery` |
| Access tokens `token/` | denylist in Redis, with expiries; published keys | sign, revoke, log out, introspect, verify | seconds against milliseconds; a revocation between the two reads of a verification; a failed read taken for an invalid token; rotation | a revoked token stays denied until it expires | `AccessTokens` |
| Resource servers `packages/nestjs-verifier` | cached key set; cached introspection answers | verify a token, introspect it | an answer that arrives after the revocation; errors cached as answers; an unknown key within the cooldown; a clock behind | a revocation takes hold within the cache time; live tokens pass unless a call fails; new keys are found | `ResourceServer` |
| Provider sign-in `google/`, `github/` | `google:state:*`, `github:state:*` in Redis, 300 s | build the consent URL, handle the callback | GET then DEL; callbacks delivered twice, late or mixed; an application or account changed during a flow | a flow opens once; no tokens without a consent of that flow; tokens go to a registered address; a claimed email is vouched for | `ProviderSignIn` |
| Applications `applications/`, `admin/` | `applications` | authenticate, check the grant, update, delete | an update or deletion during a sign-in | no lost update of other columns | `ProviderSignIn`, cascade in `RefreshTokens`; client authentication not modelled |
| Administration API `admin/` | none of its own | changes to the above | – | – | in the modules of the state it changes |
| Audit `audit/` | append-only `audit_logs` | record, errors swallowed | may be lost | a reuse report tells the truth | reuse report in `RefreshTokens` |
| Metrics, health, logging, configuration, wiring, examples, Kubernetes files | none that the service reads | – | – | – | not modelled |

Interactions. A completed login (password, OTP or provider) calls
`TokenService.issueTokenSet`, which resolves claims (RBAC cache), signs with the
active key, and opens a refresh-token family. The administration API changes
rows that other components hold in memory or in Redis: sessions, roles, keys,
applications and user status. A password reset verifies a code or a link, writes the credential
and revokes the sessions; the link or code travels in a message of the
notification queue. Resource servers ask the issuer for its keys and for the
state of a token, and cache both. The worker runs the scheduled key rotation and the
notification queue. Within the service the components meet in the database, not by messages: that is
why every module puts the interleavings of handlers over the same tables first.

## Modules

Each module's variables are the columns and Redis entries that decide an
outcome, a `req` (or `rot`, `fill`, `adm`) function with the state of each
handler in flight, and a few history variables (marked `history`) that only
properties read. Database defaults, formatting, hashing and logging are left
out. A read that finds nothing, or a request that is refused, changes no state
and is a stuttering step.

### Sessions and RefreshTokens

`Sessions` is the promise: a token is *unborn*, *usable* or *spent* and moves
only forward; a session is *unborn*, *live* or *dead*, and a dead one never gets
a usable token. `RefreshTokens` is the code: `refresh` is `RefreshLoad` (or
`RefreshReuse`), `FlushRotated`, `Mint`/`MintFails`; `revokeFamily` is
`FindFamily`, `FlushRevoked`; the administrator's and the reset's
`revokeAllSessions` is `FindSessions`, `FlushRevoked`; the reuse response ends in
`AuditReuse`. `OpenSession` stands for the insert at the end of any login. A row
is named by its token and a family by the token that opened it. `DeleteApp` is
the cascade. `Expire` stands for the clock passing `expiresAt` of a token in
`Expirable`; `Abort` ends a handler in `Mortal` between two awaits. `raced` notes
families in which two refreshes read one ACTIVE row, `interfered` those in which a
refresh and a revocation overlapped. The properties say what the code keeps
outside these overlaps. Inside them it keeps less than
`docs/CLIENT_HANDBOOK.md` says: two refreshes that both read the row ACTIVE both
mint a successor, where line 19 calls a refresh token single-use, and a refresh
past its read inserts a successor after a logout has listed the rows to revoke,
where line 145 says the logout revokes the family.

`PromiseKept` is the refinement: a token is usable while its row is ACTIVE, and
a session lives while it has an ACTIVE row **or a refresh of it is in flight**.
With that reading it holds with aborts, expiry, cascades and all races.

### SigningKeys

`BootRead`, `BootGenerate`, `Restart` are `onModuleInit` of the api replicas.
`rotate` is `ReadCurrent`, `ReadNext`, `MakeNext`, `Promote`, `Prepublish`,
`FindExpired`, `Purge`, for the `Worker` (on its schedule) and for
administrators. `LoadKey`, `Sign` are the two steps of signing. Time is in ticks,
`Period` of them between scheduled rotations, and the clock may advance at any
await: a rotation takes time, and the `new Date()` of its purge may be later than
the `Date.now()` that dated the key it generated. `Lateness` is how long after its
due time a scheduled rotation has ended. `MaySleep` lets the clock advance while a
signer holds a key too; the runs leave that out, the theorems do not. `Serial`
restricts the schedule to one rotation at a time: properties of a single rotation
are checked under it, properties that must survive overlap without it. `liveUntil`
remembers when the last token signed with a key expires.

What the code says of live tokens does not hold (see the disagreements). What does
is `LiveTokensVerifyUntilExpiry`: no rotation purges a key before the key expires,
whatever rows it read and however long ago, and so until then the key verifies what
it signed. There is no promise beyond the expiry, not even for a schedule that is
kept: the expiry of a key falls into the very rotation that retires it.

Two documented expectations hold in fewer cases than their text says:
replicas that boot together each generate an ACTIVE key, where
`entities/signing-key.entity.ts:10` speaks of exactly one, which is why `OneSigner`
is checked for one replica; and bootstrap makes no NEXT key, so that the first
rotation promotes a key it has not pre-published (`keys/key.service.ts:25`).

`KeyRing` is what is left of this for those who sign and verify tokens: keys are
served (`Serve`), one of them signs (`Elect` makes another one sign), keys that do
not sign are dropped for good (`Drop`). `KeysAreARing` is the refinement: the
keys of `getPublicJwks`, the key `getActiveSigningKey` finds and the purged rows
move like that, where rotations do not overlap and one replica boots. A rotation
cut short leaves the ring where its last step left it.

### RbacCache

`resolve` is `Hit` or `Miss`, `ReadAssignments`, `ReadRoles`, `ReadGrants`,
`ReadPermissions`, `Write`; an administrator operation is its find, its flush and its
invalidation (`FindHolders`, then per user `FindKeys`, `DeleteKeys`). `AppOf` says
which application a role or permission belongs to; the code does not ask whether a
role is assigned, or a permission granted, in its own application. `CreateRole` is
also the seed's creation of its role. Three writers change claims and invalidate
nothing: `DeleteRole` and `DeleteApp` with the cascades of the foreign keys, and
`SeedAssign`, the assignment that every start of the api inserts unless it is there.
No other code writes these tables. `Lapse` is the expiry of the entry.

An entry is `tainted` when its claims were changed by one of these three, when its
fill overlapped a change of the claims, or when the handler that owed its deletion
(`Owes`) died: the five ways in which the code leaves a stale entry with nobody
about to delete it. `AbortFill` and `AbortAdmin` are always possible.

### Otp

One (identifier, purpose) pair, for rows of different pairs never meet. `issue`
is `CheckRecent`, `InsertCode`; `verify` is `ReadCode` or `ReadLocked`, then
`FlushAttempt` or `FlushLocked`. `FlushAttempt` writes the attempt counted from
the row that was read, as MikroORM does, not an increment in the database. A tick
is long beside a handler, so a handler ends in the tick it began. Rows created
in the same tick tie in the order of the query, and either may be read. `raced`
notes the codes two verifications held at once; those the code may accept twice,
and their guesses it may count once.

### Accounts

`register` is `Register`, `RegisterInsert`, `SetPassword`;
`linkOrCreateFederatedUser` is `SignIn`/`SignInNew`, `CheckOwner`, `ApplyEmail`,
`MatchEmail`, `CreateUser`, `MarkVerified`, `Attach`. The seed is `Seed` (look for
the console's application), `SeedApp`, `SeedRole`, `SeekAdmin`, `SeedInsert`,
`SetPassword`, `SeedAssign`, on replicas that start together with one another and
with everything else. `console` says how much of the console exists, `superadmin`
who holds its role. Registration does not roll back: its account, its password and
its confirmation message are separate flushes. The unique index of `users` begins
with `organization_id`, which the code never sets, so the database refuses no
duplicate email. `raced` notes the emails found free by two handlers and the
subjects signing in twice at once; `abandoned` the accounts whose handler died
before it gave them a password or an identity.

### Login

One account, for logins of different accounts meet nowhere but in the tables of
the other modules. A handler carries the copy of the `users` row it has read
(`saw`) and writes the columns in which its decision differs from that copy.
`passwordGrant` is `PasswordGrant`, `VerifyPassword`, then `FlushFailure`, or
`FlushSuccess` and `IssueChallenge` or `Issue`; `otpGrant` with an mfa_token is
`Peek`, `ReadUser`, `CheckCode`, `ConsumeRead`, `ConsumeDelete`, `FlushSuccess`,
`Issue`; `DirectGrant` begins the OTP grant without an mfa_token and the provider
callbacks. `updateUserStatus` is `ReadForStatus`, `FlushStatus`; a confirmation of
an email or a phone is `ReadForConfirm`, `FlushConfirm`. Whether a password or a
code is right is a free answer (`Otp` says when a code is accepted). `wrong`,
`since` and `lost` count the wrong passwords since the counter was cleared and say
whether a write of the counters overtook another; `shared` notes the challenges two
grants held at once; `late` the handlers that arrived while the account was disabled.

Three things the model shows and no property forbids. Two grants that both hold
a challenge complete two logins with it, though `mfa/mfa.service.ts:51` speaks of
one use: `consume` answers whether the entry was there, and `otpGrant` does not
ask. `DirectGrant` leads to tokens on an account with MFA without a second factor.
And a confirmation that has read a pending account makes it active although an
administrator has disabled it since.

### Notifications and Recovery

`Notifications` is the queue by itself: a job is *waiting*, *active*, *done* or
*failed*. `Add` is `queue.add`; a worker does `Take`, and then the gateway has
`Accepted` it, `Refused` it, accepted it with the `AnswerLost` (the client's time
limit), or the `WorkerDies` before or after. `Retry` is what the job options say of
a thrown error. BullMQ and the gateway are outside the repository and modelled by
the options and the time limit the code gives them. `sent` counts what the gateway
accepted, `lost` notes the messages with an attempt whose outcome the queue did not
learn. `Unlucky` are the messages whose attempts may go wrong.

`Recovery` extends it with what the messages carry and what is done with it, for one
user. A link or code is named by its message; `kind` is what was stored for it.
`Ask`, `Send` are the two steps of `sendEmailVerification`, `sendPhoneOtp` and
`forgotPassword` (the row is flushed, then the message is queued); `Present` finds
the unconsumed row, `AcceptCode` is the flush of `otp.verify`, `FlushConfirm` ends a
confirmation. A reset goes on with `FindCredential`, `SetPassword` (one flush of the
password and the consumed link), `FindSessions`, `FlushRevoked`. Against it run
`LoginRead`, `LoginIssue` and `RefreshLoad`, `RefreshMint`; and `Abort` ends any
handler between two awaits. A row is presented only after its message was sent:
the user has the link from there. `shared` notes the links two handlers held at
once, `doubled` that two handlers found no credential, `overlapped` the sessions
whose login or refresh was in flight when a reset listed the sessions, `cut` that a
reset died after its password was written. In these four cases the code keeps less;
`OldSessionsEnd` and the others say what it keeps outside them.

### AccessTokens and ResourceServer

`AccessTokens` is the issuer. The clock runs in half seconds, so that what the code
rounds to seconds is rounded in the model (`Floor`). Its keys are
a `KeyRing`, from the first boot on: `Publish`, `Promote`, `PurgeKeys` are the steps of
the ring, with the time a key was published. `SigningKeys` implements the ring, so
what is proved here holds over the steps of a rotation. `Sign` issues a token; it is
one step here, while in `SigningKeys` a rotation can come between the load of the key
and the signature. Introspection, logout and the guard are
`VerifyJwt` and `ReadDenylist` (two awaits), then `WriteDenylist` for a revocation
or `Leave`. Either read may fail (`ReadFails`): the catch clause of `verify` makes an
invalid token of it, so that an introspection answers *inactive* and a revocation
answers as always and revokes nothing. Redis drops an entry when `TimeToLive` has passed.

`ResourceServer` extends it with one service that uses the verifier package, with
verifications that overlap. `FetchKeys` is a fetch of the key set by jose (external)
with its cooldown and age, `UseKeys` the check of signature and claims against a
clock that is `Lag` behind; then `UseAnswer` takes a cached answer that is recent
enough, or `Call` asks the issuer, which does `Introspect` (its own two reads);
the answer does `Arrive` and is cached at its arrival, also one that comes from a
failed read of the issuer. `ErrorArrives` is an error with a JSON body, which the
code caches as *inactive*; `CallFails` is no answer, which refuses this one request
and caches nothing. `Refuses` is all four places where `introspect` returns false.
`overtaken` notes the tokens revoked while an answer *active* was on its way, and
`failed` those whose cached answer came from an error or a failed read. A fetch of the keys takes one step,
since its time limit is short beside the cooldown.

### ProviderSignIn

One person signs in by redirects, with Google or GitHub. `BuildAuthUrl`,
`StoreState` begin a flow (the application is read, then the entry is written);
`Lapse` is its expiry. `Consent` is the provider giving a code for a flow, as often
as the person opens its URL; the provider is outside the repository. The callback is
`FindState`, `DeleteState` (a GET and a DEL), `Exchange` (the code is fresh and the
flow's verifier answers its challenge), `FindApp`, `Link`, `Issue`, for any state and
code it is handed. `PickVerified` is the choice among GitHub's emails, `GoogleClaims`
what the id token says. Against it run the two steps of `updateApplication`, with the
columns that differ from the row that was read, the two of `deleteApplication`, and
`UpdateUserStatus`. How the account is found is in `Accounts`; here there is one.
`raced` notes the flows two callbacks found, `edited` those whose application was
updated after they began, `late` the handlers past their look at the account when
it was blocked.

### MC modules

`MC<Module>` extends the module with the symmetry set of its runs, and
`MCProviderSignIn` also with the mailboxes and updates of its run. The `.cfg` files
give the constants their values and nothing else. Operators marked *Mutant* are
plausible wrong versions of the definition that follows them; they are used by no
specification and document what each property is sensitive to.

## Runs

| Run | What it shows | Bounds, and why they are enough |
|---|---|---|
| `refresh_tokens` | single use, one active token, sessions end for a reason, revocations and reuse reports hold | 4 tokens, 2 handlers: a family of three plus a second family, every overlap of two operations |
| `refresh_tokens_promise` | the refinement of `Sessions` where tokens expire and one handler may die, and a replayed token ends its session (liveness) | 2 tokens, 2 handlers, one of them mortal, both tokens may expire |
| `signing_keys_race` | some key always signs, under overlapping boots and rotations | 5 keys, 2 replicas, 2 rotators, `Period` 1: long enough for a key one rotation holds to be promoted, retired and purged by the other |
| `signing_keys_serial` | one signer, keys only move forward and implement `KeyRing`, rotations may die anywhere; a key verifies its tokens until it expires | 5 keys, 2 rotators in turn, 1 signer, 4 periods of one tick, a token lives a whole period: a key is generated, promoted, retired and purged |
| `signing_keys_expiry` | violation, see below | 5 keys, 1 rotator that starts on time, `Period` 4, a token lives half of it: a tick can fall inside a rotation |
| `rbac_cache` | stale entries have their deletion pending; entries are fresh in the end (liveness), whatever dies | 1 user, 2 applications, 1 role of one and 1 permission of the other, 1 fill, 2 administrators: a fill overlapped by two changes, an invalidation that reaches two entries, and the cascade of either application; several users are left to the theorem |
| `otp` | accepted once, guesses bounded, few usable codes | 3 codes, 2 handlers, 2 attempts, window 2, lifetime 3, 4 ticks: codes expire within the run, and the bound of usable codes is a rounded quotient that is met |
| `accounts` | one account per email, every account has a door, verified emails stay, the console is the administrator's, although handlers die | 2 accounts, 2 emails, one of them the administrator's, 2 subjects, 2 handlers: two seeds, or a seed against a registration or a sign-in |
| `login` | guessing gets slower, locks and blocks stand, a challenge completes once, disabled accounts stay out | 2 handlers, 1 challenge, `MfaEnabled`, lock after 2 failures, `Base` 1, 3 ticks: two locks can run out, and an administrator can block and unblock in between |
| `recovery` | old sessions end, links and codes reset once and are not wasted; one credentials row; no message goes before what it carries; messages are sent once or boundedly, and the work on them runs out | 2 messages, one `Unlucky`, 2 attempts, 1 stall, 2 handlers, 1 session, 2 credential rows, 2 changes of the password: two resets, or a reset against a login or a refresh, and a message sent up to three times |
| `access_tokens` | the denylist outlives the token; a revocation takes hold within the cache time; live tokens are active but for failures; new keys are found | 1 token, 2 keys, 2 verifications, 1 revoker, lifetime 2 s, 5 half seconds, cooldown 2, age 3, cache 2, lag 1: an answer can be cached, revoked under and expire, a key can be unknown, and rounding matters |
| `provider_signin` | a flow opens once, one token set per consent, claims are vouched for, tokens go to registered addresses, blocked accounts stay out | 2 flows, 2 codes, 2 handlers, 1 address, 2 emails, 3 mailboxes, 3 updates: codes and states of two flows mix, a callback is delivered twice, an update falls into a flow |

The hazards of this code are overlaps of two operations; two handlers show each,
and the numbers of rows are chosen so that a row can be born, superseded and met
again. The theorems below remove the bounds for every safety property.
`SomeKeySigns` is a statement about two overlapping rotations, the scheduled one and
an administrator's: with three or more, two of which sleep for longer than two periods
inside `rotate`, it can fail, and neither the run nor the theorem claims it.

Every module of the code has a type invariant. All are proved, and no run repeats
them.

Bounds that are constants of the modules: the sets of rows and handlers, `MaxTime`
(the clock), `MaxPassword` (changes of the password), `Attempts` and `MaxStalls`
(the code's five attempts and BullMQ's default of one stall), `MaxFailures` and
`Base` of the lockout, `Window`, `TTL` and `MaxAttempts` of the codes. Where the
code fixes a number, the run takes a smaller one and the theorem any.

`CHECK_DEADLOCK FALSE` is set where rows are bounded and the system stops once
they are used up; `RbacCache` never stops and is checked for deadlock.

**Fairness.** Only two runs need it. In `refresh_tokens_promise` every
handler's step is weakly fair: Node's event loop resumes a handler whose query has
answered. A handler in `Mortal` may die instead, so `ReplayEndsSession` is about
the replays the others serve. In `rbac_cache` a fill's and an administrator's steps are
weakly fair, for the same reason, and so is `Lapse`: Redis drops an entry after 60
seconds. There handlers may die at any await; a dead handler takes no further
step. Nothing is assumed of arrivals: nobody has to log in, refresh or administer.
That the queue's work on a message ends is stated without fairness, by a variant:
`WorkRunsOut` says that every step of it lowers a natural number.

## Disagreements between code and documentation

`signing_keys_expiry` is a run of kind *violation*: its one property states a sentence
of the repository, and TLC's trace is the scenario.

| Run | The repository says | The code does |
|---|---|---|
| `signing_keys_expiry` | `keys/key.service.ts:114` the JWKS hold every key that may still verify a live token; `:59` a key verifies for two rotation periods past its activation | the two periods are counted from the generation of the key as NEXT, one period before it is activated (`:92`), and end about when it is retired. The purge compares with a `new Date()` at the end of the rotation (`:153-157`): a rotation whose purge comes later in its slot than the generation two periods before retires and purges the key in one go. No delay of the job is needed, only the time `rotate` takes: in the trace the key is generated as the slot begins, and the purge of a rotation started on time falls one tick into its slot |

Others show in the models as the cases the properties except:

* `rbac/rbac.service.ts:20-21` says claims are invalidated on any change to the
  user's assignments; `deleteRole` and `deleteApplication`
  (`admin/admin.service.ts:136-141`, `103-107`) remove assignments by cascade, the
  seed (`bootstrap/seed.service.ts:119-132`) inserts one, and none of them
  invalidates anything (`tainted` in `RbacCache`).
* `registration/registration.service.ts:57` speaks of one account per email, as does
  the index `users_org_email_unique`; the index excludes nothing while
  `organization_id` is NULL, and overlapping registrations both commit (`raced` in
  `Accounts`).
* `bootstrap/seed.service.ts:16-17` promises a way in; a seed that dies before the
  password leaves an account that no later seed gives one (`abandoned` in `Accounts`).
* `options.ts:24` of the verifier package speaks of instant revocation; an answer is
  cached for 30 seconds by default, and from its arrival, so that one overtaken by
  the revocation lasts as long again (`overtaken` in `ResourceServer`).
* `token/token-verifier.service.ts:34-35` says null means "invalid, expired, or
  revoked"; it also means that the keys or the denylist could not be read (`:54-56`,
  `ReadFails` in `AccessTokens`), and resource servers cache the verdict.
* The callbacks of the providers read the application without its status: one that
  was disabled still gets tokens from them (`FindApp` in `ProviderSignIn`).
* The OTP grant without an mfa_token does not ask for the account's second factor
  (`DirectGrant` in `Login`).

## Proofs

### RefreshTokens

`RefreshTokensProofs` proves, for every set of tokens, handlers, users and
applications, with or without aborts and expiry:

| Theorem | States |
|---|---|
| `TypeCorrect` | `Spec => []TypeOK` |
| `SingleUse` | `Spec => []SingleUseUnlessRaced` |
| `OneActive` | `Spec => []OneActiveUnlessRaced` |
| `ReportedDead` | `Spec => []ReportedSessionsAreDead` |
| `RevocationEnds` | `Spec => RevocationEndsSessions` |
| `EndForAReason` | `Spec => []SessionsEndForAReason` |
| `Refinement` | `Spec => PromiseKept` |

Assumed is only what the module's ASSUMEs say: `NoneIsNew` (`None` is not a token,
user or application), `ExpirableTokens` and `MortalHandlers` (`Expirable` is a set
of tokens, `Mortal` a set of handlers). TLC evaluates them on every run.

The argument. None of the properties is inductive: each is about families, and
what keeps a family together is in the rows and in the memory of the handlers.

* `Base` adds to the type that a row which exists has a family whose founder is
  itself, that a parent is a row of the same family, and that whatever a handler
  holds or has found exists and fits its `pc`. Every further invariant assumes it.
* `Unraced` is behind single use and one active token: in a family that is not
  `raced`, a token that is ACTIVE or about to be rotated has no successor and is
  held by one handler at most, and one token at most is ACTIVE or about to have a
  successor. Steps that neither change a status nor a refresh are disposed of
  together (`Quiet`), the other four (open, load, rotate, mint) one lemma each.
* `Revocations` is behind the two revocation theorems: once a revocation has
  listed a family without interference, what it found includes every row that
  could be ACTIVE, no refresh of the family is in flight, and none can begin
  before the write without being noted. The write then kills the family
  (`FlushKills`), and a dead family stays dead (`DeadStays`).
* `Continuing` says that a family with no ACTIVE row has a successor on its way
  or a row that was ended on purpose.
* The refinement maps open, mint, load, rotate and all the other steps to a step
  of `Sessions` or a stutter, one lemma each; `LiveFamily` and `PhaseKept` carry
  what they share.

### Login

`LoginProofs` proves every property of the run `login`, for any number of
handlers and challenges, with or without MFA, any `MaxFailures` and `Base`, and
without a bound on the clock:

| Theorem | States |
|---|---|
| `TypeCorrect` | `Spec => []LoginTypeOK` |
| `Disabled` | `Spec => []DisabledStayOut` |
| `Standing` | `Spec => LocksAndBlocksStand` |
| `Guessing` | `Spec => []GuessingSlowsUnlessLost` |
| `Completing` | `Spec => []ChallengeOnceUnlessShared` |

Assumed is what the module's ASSUMEs say of the constants: `None` is not a
challenge, `MfaEnabled` is a truth value, `MaxFailures` and `Base` are positive,
`Targets` are statuses. `PowersOfTwo` states what the proof of `Guessing` uses of
the powers of two up to the cap of the backoff; it has no parameter, so that TLC
checks all of it.

* `Reading` says what a handler's `pc` tells of its copy: a password is tried
  and a login is counted on a copy that was not locked, and tokens follow a copy
  that was not disabled. `StepMoves` shows it of every action at once; `Standing`
  follows, for a write that lowers a lock in force was decided on another copy.
* `LateBarred` strengthens `DisabledStayOut` by the copies of the late handlers,
  which all show the disabled account.
* `Slowing` is behind `Guessing`: while no write was lost, the counter is the
  number of wrong passwords, and after `MaxFailures + k` of them the lock ends at
  least `Base * (2^(k+1) - 1)` after the first. The next failure was let through
  after that end and sets a lock of twice the length.
* `Unshared` is behind `Completing`: a challenge that was never shared has one
  holder, is gone before its holder goes on to the tokens, and is held by nobody
  once a session was opened with it.

### Otp

`OtpProofs`, for any rows, handlers, window, lifetime, number of attempts and clock:
`TypeCorrect`, `AcceptedOnce`, `GuessesBounded`, `ExhaustedStayDead`, `FewAtOnce`
(`OtpTypeOK`, the three properties of the run `otp`, and `ExhaustedCodesAreDead`).
Assumed: `NoneIsNoCode`, `LimitsArePositive`.

* `Single` carries the first four: a row that was not raced has one holder at most,
  whose copy of the attempts is true, and its attempts are exactly the answers given
  on it. The counts alone are not inductive: a holder writes what it remembers.
* `Spaced` is behind `FewAtOnce`: unless issues overlapped, any two rows are a window
  apart. Usable rows are younger than a lifetime; numbering them by the window they
  fall in is then an injection into `0 .. k - 1` with `k` the rounded quotient of
  lifetime and window, and an injection bounds the cardinality.

### RbacCache

`issueTokenSet` makes an access token of claims and a key; `IssuanceProofs` has the
theorems about both, one part after the other. Its first part, for any users,
applications, roles, permissions, fills and administrators, proves
`ClaimsTypeCorrect` and `StaleIsOwed` (`CSpec => []FreshUnlessTainted`).
Assumed: `NothingIsNoRole`, `EachHasAnApp`.

The entry is written from what a fill remembers, so the invariant speaks of that
first. `Filling`: a fill no change of the claims overlapped holds what the tables
give for its slot. `Existing` and `Granted`: assigned roles and granted permissions
exist, so that reading them drops nothing. `SilentKept` disposes of the three writers
that invalidate nothing together. `Working`: an administrator past its find has a role and a slot. `Fresh` is
the property per slot: a stale entry is tainted or somebody owes its deletion.
Together they are `CInv`.

### SigningKeys

The second part of `IssuanceProofs`, for any keys, replicas, rotators, signers,
period, lifetime and lateness, with or without aborts. Assumed are `NoneIsNoKey`, `TimesAreNatural`,
`SwitchesAreBoolean`, and in a theorem what its run fixes:

| Theorem | States | Assumes |
|---|---|---|
| `TypeCorrect` | `Spec => []KeysTypeOK` | |
| `AKeyAlwaysSigns` | `Spec => []SomeKeySigns` | at most two rotators |
| `RetiredForGood` | `Spec => KeysMoveForward` | `Serial` |
| `OneKeySigns` | `Spec => []OneSigner` | `Serial`, one replica |
| `KeysLastUntilExpiry` | `Spec => []LiveTokensVerifyUntilExpiry` | |
| `RingKept` | `Spec => KeysAreARing` | `Serial`, one replica |

Everywhere the base is the type and `Held`: what a rotation remembers
was so when it read it.

* `SignerInv`, for two rotations that overlap: an ACTIVE key exists (`Spare`) from
  the first start on. What one rotation is about to demote or purge is not all there
  is (`Leaves`), and neither is what the two are about to, whichever goes first
  (`LeaveTogether`). The second part is where a third rotation would break it.
* `SerialInv`: a rotation that runs alone promotes what still is NEXT and purges what
  still is RETIRING (`Alone`).
* `OneInv` adds `Exact` (the rotation demotes the only ACTIVE key and makes a NEXT one
  where there is none) and `Missing` (a replica generates a key only while there is
  none to sign with), at every cut of a rotation.
* `Lasting` is behind `KeysLastUntilExpiry`: what a rotation found to purge had
  expired when it was found (`FoundExpired`) and, as the clock goes on and the expiry
  of a row is written once, still has whenever the purge comes, however long the
  rotation slept; a purged key has expired (`KeyLasts`), and only a known key signs.
* `RingKept` maps each step: a generation is `Serve`, the promotion `Elect`, the purge
  `Drop`, the others stutter. `SerialInv` and `OneInv` say what the mapping needs: the
  ACTIVE key is one, so that the key found is the key that signs, and what a rotation
  purges has retired. Two replicas that boot together have two ACTIVE keys, and a
  read may find either; overlapping rotations can leave two as well. No ring is
  promised there, only `AKeyAlwaysSigns`.

### Accounts

`AccountsProofs`, for any accounts, emails, subjects and handlers, any of which may
die at any await:

| Theorem | States |
|---|---|
| `TypeCorrect` | `Spec => []AccountsTypeOK` |
| `OneAccountPerEmail` | `Spec => []EmailUniqueUnlessRaced` |
| `NoAccountIsLockedUp` | `Spec => []EveryAccountHasADoor` |
| `VerifiedForGood` | `Spec => VerifiedEmailsStay` |
| `TheAdministratorsConsole` | `Spec => []ConsoleIsTheAdministrators` |

Assumed: `NoneIsNothing`, `AdminIsAnEmail`. The base is the type, `Stored` (rows that
do not exist are empty, identities point to accounts) and `Known` (what a handler
holds exists).

* `EmailInv`: over an email nobody raced for, one handler at most is about to write
  it, and an account has it only if that is the one this handler writes (`Claimed`).
* `SubjectInv`: a subject not raced is signed in by one handler at a time, and has no
  identity while that handler is about to link one (`Sole`). With it a door, once
  open, stays, and each insert leaves a handler that owes the door (`DoorInv`).
* `SteadyInv`: what a sign-in saw of the email of a steady account is what the
  account has (`SawRight`). That needs `Private`: an account without an email is
  reached by one subject only, since no other sign-in can have matched it.
* `ConsoleInv`: a seed past the role found it there, and holds an account with the
  administrator's email (`Seeds`).

### Notifications and Recovery

`RecoveryProofs` begins with the queue by itself: for any messages, attempts and
stalls, and whichever attempts
go wrong, `SentOnce`, `RunsOut`, and the type. The invariant `NInv` charges
every copy to a failed attempt or a dead worker (`Charged`), and says that nothing is
sent unnoticed (`Known`).

Then comes the recovery. `QueueIsKept` (`Spec => NSpec`) shows that the recovery
uses the queue as the queue promises, so that the two theorems hold of it as well
(`MessagesBounded`). For any handlers, messages, sessions and credential rows it
proves `TypeCorrect`, `OldSessions`, `LinksOnce`, `OneCredential` (one credentials row
unless two handlers found none) and `NothingSentAhead` (no message before the link or
code it carries). Assumed: `AttemptsArePositive`, `UnluckyMessages`,
`NoneIsNew`, `PasswordsAreCounted`. The parts of its invariant `RInv`:

* `Spent`: a link or code nobody shared has one holder at most, and none after it
  wrote a password.
* `OneRow`: unless two handlers found no credential, there is one at most, it holds
  the current password, and whoever found none is alone.
* `Settling`, behind `OldSessions`: a live session opened with an older password is
  found by a reset, or there is a reset still to look (`Doomed`); and a login or
  refresh in flight that no look passed by does not undo that (`Overtaken`).

### AccessTokens and ResourceServer

`ResourceServerProofs` begins with the issuer by itself, for any tokens, keys,
handlers, lifetime and clock: `TypeCorrect`, `DenylistLasts`. The invariant `AInv`
says of every revoked token that its entry reaches to the end of its life at least; that this is kept is a lemma
about the rounding of half seconds (`EntryOutlives`). Assumed: `NoneIsNew`,
`TokensLive`, `HandlersDiffer`.

Then, also for any cooldown, ages and lag: `IssuerIsKept`
(`Spec => ASpec`: beside resource servers the issuer does what it does alone, so its
theorems carry over), `ServerTypeCorrect`, `DenylistLastsHere`, `RotationIsSeen`,
`RevocationHolds`, `LiveTokensPass`. Assumed: `DurationsAreNatural` besides. In its
invariant `SInv`, `Newer` says that a published key the set lacks was published after
the fetch; `Heeded` that no answer, cached or on its way, says *active* of a token
revoked before it was made; `Trusted` that no answer says *inactive* of a live token
nobody revoked, but one that came from an error or a failed read.

### ProviderSignIn

`ProviderSignInProofs`, for any flows, codes, handlers, addresses, emails, mailboxes
and updates; handlers may die at any await:

| Theorem | States |
|---|---|
| `TypeCorrect` | `Spec => []ProviderSignInTypeOK` |
| `OpensOnce` | `Spec => []FlowOpensOnceUnlessRaced` |
| `TokensNeedConsent` | `Spec => []OneTokenSetPerConsent` |
| `ClaimsHold` | `Spec => []ClaimsAreVouchedFor` |
| `TokensGoHome` | `Spec => TokensGoToRegistered` |
| `BlockedAreKeptOut` | `Spec => BlockedStayOut` |

Assumed: `NoneIsNoValue`, `MailboxesAreLists` (a mailbox is a list of GitHub's
records), `UpdatesArePatches`. `Base` is the type with what a handler holds: a flow
that was begun, and in a callback a code; a flow not begun has no entry and opened
nothing.

* `FlowInv`, behind `OpensOnce`: the handler about to store the entry of a flow has the
  flow alone; after that, over a flow nobody raced for, there is one callback, which
  takes the entry away before it goes on, and none once the flow opened.
* `ConsentInv` counts: each code of the flow that was exchanged became a token set, is
  in the hand of one handler, or went to nothing. So the races that `OpensOnce` excepts
  are bounded by consents. Each step moves one element between finite sets at most,
  and the cardinalities follow.
* `ClaimsInv` carries through the handler what the mailbox said when the code was
  exchanged. It rests on `PickVerified`, for lists of any length: the least index
  with a verified address exists because `<` is well founded on the naturals.
* `RegisteredInv`: what `buildAuthUrl` found registered for a flow still is, or an
  update was written after it began, or the application is gone. Only the flush of an
  update could break it, and it notes in `edited` the flows that had begun.
* `AccountInv`: a handler past its look at the account saw one that may sign in; a
  block since then made it `late`.

### Model-checked only

The liveness properties (`ReplayEndsSession`, `EventuallyFresh`): fairness and
`ENABLED` are beyond the prover. `LiveTokensVerify` is refuted by its run.

## Not modelled

* *Client secrets and the status of an application* (`authenticateClient`,
  `rotateSecret`): one read decides a request and one write changes the row. There
  is no order of steps to get wrong.
* *Guards* (roles, permissions and scopes of the verifier package, the API key of the
  administration): pure predicates of one request.
* *An account with an email and a phone at once*: `Accounts` has one identifier per
  account; `Recovery` has both flags and only one account.
* *Creation of permissions*: it changes no claims.
* *Metrics, health, logging, audit* but the reuse report: nothing reads what they
  write.
* *Configuration, wiring, error filter, cryptographic primitives, the example
  client, deployment files*: no state. Replicas, restarts and rolling updates are
  what the modules assume of them.

## What is left

1. A specification of `SigningKeys` and `AccessTokens` side by side: with
   `KeysAreARing` and `DenylistLasts` proved apart, it would add the rotation that
   falls between the load of a key and the signature.
2. What `KeyRing` becomes when rotations overlap: a set of keys that sign.

## Running it

    tlc -workers 2 -config RefreshTokens.cfg MCRefreshTokens
    tlapm RefreshTokensProofs.tla

`PROJECT.json` lists every run with its module, configuration and properties,
the source lines each definition stands for, the hazards each property is for,
and a mutant for each property.
