# Verification of the admin portal

TLA+ models of the API, its database layer and their clients, model-checked
with TLC and, where a result should hold for every number of users, tokens,
requests and connections, proved with TLAPS. Paths below are relative to the
repository.

The program is a multi-tenant administration portal: an Angular portal
(`apps/portal`), a NestJS API that runs as several instances (`apps/api`), a
PostgreSQL layer (`packages/db`), shared contracts (`packages/contracts`) and
pure security helpers. Mobile devices reach the tenant's D365 ERP through the
API. What is hard in it is not the CRUD but what happens between statements:
refresh-token rotation, single-use links and codes, seats, timed locks, a token
cache per instance, a pool of connections shared by all tenants, all under READ
COMMITTED transactions and Node's interleavings, and screens whose answers
arrive in any order.

## 1. Inventory

| Component | State | Operations | Talks to | Hard behaviour | Correct when | Modelled in |
|---|---|---|---|---|---|---|
| **Sessions** `auth.service.ts`, `refresh-tokens.ts`, `authentication.ts`, `password-reset.ts` | `refresh_token`, `password_reset`, `user`, MFA challenge tokens | sign in, answer the challenge, refresh, sign out, request and redeem a reset link | Members (status), Tenants (archival), Audit, Portal session | statements of concurrent transactions; unlocked reads; deadlock; rollback | one exchangeable token per family; exchanges are single use; what is revoked is revoked to the root; a link works once | `Sessions`, `SessionChain` |
| **Members** `invitations.ts`, `modules.ts` (seats), `user-administration.ts` (status) | `user`, `user_invitation`, seat columns of `tenant` and `plan` | invite, re-invite, accept, suspend, restore, change the allowance | Sessions, Roles, Provisioning | check-then-act on seats and links; a slow hash between read and write | the overshoot is bounded; nobody is active without a password; who has one has accepted an invitation | `Members` |
| **ERP connection** `connection.service.ts`, `connections.ts`, `d365-token.cache.ts`, `d365-proxy.service.ts` | one `d365_environment` row; per instance a token and an exchange in flight | save, test, proxy a request, expire, restart | Entra, D365, Secret sealing, Mobile configuration | awaits between check and commit; shared promise; caches of other instances | one exchange at a time; no failure cached; everybody answered; an old credential disappears | `ErpConnection` |
| **Tenant scoping** `scoping.ts`, `pool.ts`, `context.ts`, `access-token.guard.ts`, `platform.guard.ts` | the pool, settings of a connection, the request context, the cached platform tenant | authenticate, look up, BEGIN, SET LOCAL, work, COMMIT, ROLLBACK, release | every component of the API | failure at any statement; a connection that breaks; a shared lookup; a pool with nothing left | a query runs as its own tenant; nothing of a borrower stays; everything lent comes back | `Scoping` |
| **Sign-in throttling** `rate-limit.service.ts`, `lockout.ts`, `password-reset.ts` (the count) | Redis windows, in-process fallback, `failed_login_count`, `locked_until` | consume, register a failure, clear, lock | Sessions | INCR then PEXPIRE, Redis outage, a restart, parallel guesses | a window admits its limit; a lock bounds the guesses; windows end | `Throttling` |
| **Multi-factor** `mfa.ts`, `totp.ts` | the sealed secret, `mfa_code_use`, recovery codes | begin, confirm, verify | Sessions | two requests with one code; enrolments that overlap; claims rolled back | a code opens one session; nobody waits for ever | `Mfa` |
| **Roles, permissions, modules** `user-administration.ts`, `role-administration.ts`, `modules.ts` | `user_role`, `role_permission`, `tenant_module` | replace a whole set | Access tokens, Members | SELECT, DELETE, INSERT without a lock; deadlock; violated constraints | no write without its read; a replacement differs from what was asked only by what others committed | `Administration` |
| **Tenants, packages** `tenant-administration.ts`, `tenancy.ts`, `modules.ts` | `tenant`, `audit_log` | suspend, reactivate, archive, restore, rename, package, seats | everything tenant-scoped | unlocked reads before a write and its audit entry | the log tells what the tenant is | `Tenants` |
| **Operators' desk** `platform-tenant-detail.page.ts`, `tenant-subscription.component.ts` | what is shown, drafts, dialogs, busy controls | load, choose, save, ask, apply, rename | Tenants | answers out of order, lost, to a card that is gone; another operator | shows its own save; offers to save only what was chosen; no control stays busy | `Tenants` |
| **Portal session** `apps/portal/src/app/core/auth`, `core/http` | refresh token in `sessionStorage` per tab, identity in `localStorage`, access token in memory | sign in, challenge, restore, refused, sign out | Sessions | lost answers, duplicated tabs, late 401s | a tab holds the current token; no replay of its own making; nobody shown without a credential | `PortalSession` over `SessionChain` |
| Platform tier `platform.service.ts` | platform users | bootstrap, suspend | Tenants, Members | two operators suspend each other | somebody remains | its calls on a tenant: `Tenants` |
| Provisioning | one transaction | create a tenant with its administrator | Members, Roles | none left once in one transaction | – | initial state of `Members` and `Tenants` |
| Access tokens | – (signed claims) | sign, verify | all | claims go stale until expiry, by design | – | no |
| Audit log | append-only rows | insert | all | – | – | the tenant's entries in `Tenants` |
| Mobile configuration, company reads | one row per tenant | replace, read | devices | last write wins, documented | – | no |
| Secret sealing, TOTP, hashing | – | pure functions | – | – | – | no |
| Health, logging, contracts, other screens, configuration checks, infra | – | – | – | – | – | no |

Section 6 says why the last rows are left out. The hazards of the code, each at
its line with the properties that watch it, are in `PROJECT.json`.

**How the modelled parts interact.** `Scoping` is the ground of the API: it
shows that the transaction a handler is given runs as the right role and tenant,
is its own, and ends; the other modules start from such a transaction. Sessions
and Members share the row of a person: Sessions has the status as seen by
sign-in, refresh and reset, with an administrator's suspension and the archival
of a tenant as actions; Members has the same row from the invitation to the
suspension, Tenants the archival itself. Throttling decides who gets as far as
the password, Mfa what the challenge of a sign-in is answered with.
`PortalSession` is the other end of Sessions: its server is an instance of
`SessionChain`, the abstract specification that Sessions is proved to implement,
so what a tab relies on and what the API guarantees are one text. ErpConnection
shares no row with any of them.

## 2. Plan

Most important first. A module is a component, written so that it can be
proved about: sets as constants, one action per statement or per stretch
between awaits, invariants as conjunctions of named parts, no `RECURSIVE`.

1. `Sessions`, its abstract specification `SessionChain`, their proofs
   `SessionsProofs` – done.
2. `Members`, the `Directory` it implements, `MembersProofs` – done.
3. `ErpConnection`, `ErpConnectionProofs` – done.
4. `Throttling` – done.
5. `Mfa`, and `SignInProofs` for the two that stand before a session – done.
6. `Scoping`, `ScopingProofs` – done.
7. `Tenants` with the operators' desk, `TenantsProofs` – done.
8. `Administration`, `AdministrationProofs` – done.
9. `PortalSession`, `PortalSessionProofs` – done.
10. Worth stating after that: the operators who may suspend each other; the list
   pages of the portal with their debounced search and their overlapping loads
   (section 6).

## 3. Modules and the code

### Transactions (Sessions, Members, Mfa, Administration)

Every request runs in one transaction of READ COMMITTED
(`packages/db/src/scoping.ts`; `Scoping` is about that alone). `tx[c]` is the transaction open on connection
`c`: a program counter, the ids its parameters and SELECTs delivered, and in
Sessions what it holds and has written. One action is one SQL statement:

* a plain `SELECT` reads the committed state when it starts;
* an `UPDATE ... WHERE` fixes its rows (`targets`) when it starts and then
  visits them one by one (`RevokeRow`, `BurnRow`), waiting for each row another
  transaction holds and re-checking only that row;
* `SELECT ... FOR UPDATE OF rt` waits for the token's row and re-reads it, while
  the joined user and tenant stay those of the statement's start (`live`);
* writes become visible in the action that commits (`CommitExchange`,
  `CommitRevocation`, `CommitReset`, ...); `Rollback` may strike anywhere
  before – an exception, a lost connection, a crash, a deadlock's victim.

Statements between which no other transaction can tell the difference are one
action (the reset's `UPDATE "user"` and the `UPDATE` of its own link, say).

### Sessions

`rt`, `used`, `revoked`, `expired` are `refresh_token` with its columns split
into those an `INSERT` writes once and those that are set later. `link`,
`linkUsed`, `linkExpired` are `password_reset`, and as history `redeemed` counts
the passwords a link has set and `retired` keeps the links an account had when
one was set; `status`, `cred`, `archived`
are the columns of the user and the tenant that decide whether an account is
usable, a password hash being the number of resets. `challenge` holds the MFA
challenge tokens in callers' hands. Secrets, hashes and addresses are ids:
256-bit random values do not collide (`Fresh`).

| Code | Actions |
|---|---|
| `AuthService.login`, `authenticate` | `SignInSelect`, `SignInIssue`, `SignInChallenge` |
| `AuthService.verifyMfa` | `VerifyMfaSelect`, `VerifyMfaIssue` |
| `rotateRefreshToken` | `RefreshSelect`, `RefreshReplayed`, `RefreshRefused`, `RefreshInactive`, `RefreshExchange`, `CommitExchange` |
| `revokeRefreshTokenFamily`, `revokeSessionByRefreshToken` | `LogoutSelect`, `RevokeStart`, `RevokeRow`, `CommitRevocation` |
| `requestPasswordReset`, `completePasswordReset` | `RequestReset`, `ResetSelect`, `ResetRefused`, `ResetAccepted`, `ResetPassword`, `SweepStart`, `RevokeRow`, `BurnStart`, `BurnRow`, `CommitReset` |
| `setUserStatus`, `softDeleteTenant`, `restoreTenant` | `StatusSelect`, `StatusCommit`, `ArchiveTenant`, `RestoreTenant` |

`SessionChain` is what a caller is promised of a family: a set `live` with at
most one exchangeable token, handed on by an exchange, that never comes back
once it is empty. `Sessions` implements it under `live <- the unspent tokens of
the family`.

### Members

`user` maps an address to its status and the number of times a password was
set; `invitation`, `accepted`, `expired` are `user_invitation`; `seatLimit` is
`coalesce(tenant.seat_limit, plan.user_limit)` and `peak` its highest value so
far (history). The initial state is what `provisionTenant` leaves: an invited
administrator with one link.

| Code | Actions |
|---|---|
| `issueInvitation`, `assertSeatAvailable` | `InviteSelect`, `InviteCount`, `InviteInsert`, `InviteCommit` |
| `acceptInvitation` | `AcceptSelect`, `AcceptPassword`, `AcceptCommit` |
| `setUserStatus` | `StatusSelect`, `StatusCommit` |
| `setTenantSeatLimit`, `setPlanUserLimit` | `SetSeatLimit` |

`Directory` is what administrators are promised: a person comes in by an
invitation, becomes active by accepting one, is suspended, and is reinstated only
if they once accepted. `Members` implements it under `status <- the status of
each row` and `earned <- the people whose invitation was accepted`.

### ErpConnection

One environment. `cred` and `state` are its row; `cache` and `flight` the two
maps of `D365TokenCache` on every instance, a token being the credential it was
minted from; `device` and `admin` the requests in progress. A credential is a
client with its Entra tenant, an authority host and a secret; a save may omit the
last two, which are then those of the row, read before the check and merged once
more by the UPDATE (`Merged`). An action reaches
from one `await` to the next: Node runs nothing in between. The transactions on
the row are one step each, as each touches one row once. Entra and D365
accept or refuse as they please, so a timeout is a refusal.

| Code | Actions |
|---|---|
| `D365ProxyService.forward`, `attempt` | `Forward`, `Answered`, `Refused` |
| `D365TokenCache.tokenFor`, `acquire`, `evict` | `TokenFor`, `Load`, `Exchange`, `Settle`, `TokenExpires` |
| `ConnectionService.save`, `saveConnection` | `SavePrepare`, `Check`, `SaveCommit`, `SaveEvict`, `Record` |
| `ConnectionService.test`, `recordConnectionCheck` | `TestPrepare`, `Check`, `Record` |
| process stop, failing transaction | `Restart`, `RequestFails` |

### Scoping

A request's `pc` walks from the guard to the answer; `conn` is the pool, each
connection with the settings in force in and outside a transaction, so that a
`SET` without `LOCAL` would be seen to outlive its request. `cached` names the
request whose lookup of the platform tenant is the shared promise, `outcome`
how it went. What a handler does is one step, `Work`, on whatever role and
tenant are then in force.

| Code | Actions |
|---|---|
| `AccessTokenGuard`, `setRequestTenant` | `Authenticate`, `SetRequestTenant` |
| `PlatformGuard`, `resolvePlatformTenantId` | `Lead`, `Follow`, `Settle`, `Resolved` |
| `withRequestTenantScope`, `withoutTenantScope` | `Ask`, `Begin`, `SetRole`, `SetTenant`, `Work`, `Commit`, `Throw`, `Rollback`, `Release` |
| pg-pool | `Connect`, `ConnectFails`, `IdleBreaks`, `BorrowedBreaks` |
| process | `Restart` |

### Throttling

A step is one command to Redis, or a transaction's read, or its write with the
commit. `counter` has a store per instance, its memory, and Redis; `timed` are
the keys with an expiry. `admitted` and `tries` are history, the latter the wrong
passwords since the count was last cleared, or a lock lapsed with the count at
the threshold. A password reset clears the count and leaves the lock, so that an
account may be locked with any count.

| Code | Actions |
|---|---|
| `RateLimitService.consume`, `consumeLocally`, `RateLimitGuard` | `Incr`, `IncrFails`, `IncrUnanswered`, `Expire`, `ExpireFails`, `Decide`, `DecideFails`, `ConsumeLocally`, `WindowEnds`, `LocalWindowEnds` |
| `authenticate`, `registerFailedAttempt`, `clearFailedAttempts` | `Look`, `WrongPassword`, `RightPassword`, `Leave`, `LockLapses` |
| `completePasswordReset` | `PasswordReset` |
| process | `Restart` |

### Mfa

One account. A code of the authenticator is the 30-second step it belongs to,
valid while the step is in `Window`; a recovery code is an id. `spent` is
`mfa_code_use`, whose unique index makes the second claimant wait.

| Code | Actions |
|---|---|
| `beginMfaEnrolment` | `BeginSelect`, `BeginUpdate` |
| `confirmMfaEnrolment` | `ConfirmSelect`, `ConfirmClaim`, `ConfirmCommit` |
| `verifyMfa`, `AuthService.verifyMfa` | `VerifySelect`, `VerifyClaim`, `VerifyCommit`, `VerifyDenied` |
| clock, failure | `Tick`, `Fails` |

### Administration

Three forms that replace a whole set are one machine, because they are written
alike: read, `DELETE`, `INSERT`. They differ in what `kind` selects: roles are
deleted and inserted by difference, permissions are all deleted and all
inserted without `ON CONFLICT`, modules delete what is not wanted and insert
the rest with it.

| Code | Actions |
|---|---|
| `setUserRoles`, `setRolePermissions`, `setTenantModules` | `Select`, `Delete`, `DeleteRow`, `Insert`, `InsertRow`, `Commit`, `Rollback` |

### Tenants

`tenant` is the row, `log` what the audit log says of it: what the newest entry
of each field tells, and the balance of its lifecycle entries. Entries are
ordered the way every reader of `audit.ts` orders them, by `created_at`, whose
default is `now()`: the beginning of the transaction. So a request carries the
date it `began` with, which is that of its sending, and `Entry` leaves a newer
entry in place. `raced` and `log.raced` are history: another change of the field
was committed while this one's transaction was open, or while that which wrote
the field last was. The desk is the
page of one operator; everybody else is `Elsewhere`, the same requests without
a page. A card that a load replaces leaves an orphaned request, whose answer
nobody hears (`toSignal`, output of a destroyed component). Two steps are coarser
than the code. `Disconnected` comes before the commit or the refusal: an answer
lost after the commit is taken for one whose commit comes later, which the desk
cannot tell apart, so `ShowsOwnSave` counts such a save as somebody else's. And
`SaveRename` sends what `(ngSubmit)` of the dialog (line 413) is bound to, though
the page imports no `FormsModule`, without which nothing emits that event: the
model's desk can do more than the page.

| Code | Actions |
|---|---|
| `suspendTenant`, `softDeleteTenant`, `reactivateTenant`, `restoreTenant` | `FindTenantDetail`, `Suspend`, `SoftDelete`, `Restore`, `Reactivate` |
| `setTenantName`, `setTenantPlan`, `setTenantSeatLimit` | `Select`, `Update` |
| `PlatformTenantDetailPage` | `Load`, `Retry`, `Show`, `Ask`, `Cancel`, `Apply`, `Applied`, `StartRename`, `TypeName`, `SaveRename`, `Failed` |
| `TenantSubscriptionComponent` | `Inputs`, `Choose`, `Save`, `Clear`, `Answered` |
| network | `Disconnected` |

### PortalSession

Per tab the storage, the memory and the screen; `identity` is the one key of
`localStorage`. A request is sent, served and answered in three steps, and may
be lost on either way.

| Code | Actions |
|---|---|
| `SessionStore`, `provideSessionRestore` | `Set`, `Clear`, `Load`, `Restored`, `RestoreFails`, `Duplicate`, `Leave`, `Close` |
| `AuthService`, `LoginPage`, `MfaChallengePage`, `MfaChallengeStore` | `SubmitSignIn`, `SignedIn`, `Challenged`, `SubmitCode`, `SignOut` |
| `authGuard`, `guestGuard`, `mfaChallengeGuard` | `Guard`, `Navigate` |
| `authInterceptor`, `errorInterceptor` | `Request`, `Arrive`, `Unauthorized` |
| the API | `ServeSignIn`, `ServeChallenge`, `ServeRefresh`, `ServeRefusal`, `ServeStray`, `SessionEnds` |
| network | `Lose` |

## 4. Runs

Each `MC` module adds the symmetry of its interchangeable ids; runs with a
liveness property do not use it.

### Runs that pass

| Run | Bounds | Shows |
|---|---|---|
| `Sessions_account` | 1 user with a second factor, 3 tokens, 2 connections, suspension, archival and expiry | `OneUnspentPerFamily`, `SingleUse`, `RevokedToTheRoot`, the invariant `IInv` the proofs use, and `ImplementsChain`, while exchanges, replays and sign-outs of a family race each other and the account is suspended and restored, its tenant archived and restored, everything expires |
| `Sessions_reset` | 1 user, 2 tokens, 2 links that expire, 2 connections, with fairness | Redemptions race each other and exchanges: `ResetLinkSingleUse`: a link sets one password, and none once it or a later password burnt it; `RedemptionBurnsTheRest`: a redemption leaves none of the links its account had when the password was set; and every request gives its connection back, in spite of deadlocks (`EveryRequestEnds`) |
| `Members_access` | 3 people, 3 invitations, allowances 1 and 2, 2 connections | `AccessIsEarned`; `ImplementsDirectory`; `SeatsBounded`: the package is exceeded by at most connections − 1, a figure the run reaches |
| `ErpConnection_proxy` | 2 devices, 1 administrator, 2 instances, 1 authority, 2 secrets, with fairness | `SingleFlight`, `TokensWereIssued`; a device is let through only once a credential is stored (`ResolvedIsConfigured`); everybody is answered, also those who only joined an exchange (`EveryRequestAnswered`); a replaced secret disappears from both caches, of which a save evicts one (`ReplacedSecretFades`) |
| `ErpConnection_saves` | 2 clients, 2 authorities, 2 secrets, 2 administrators, no device | `PartsWereTested`: whatever saves race and omit, client, authority and secret of what is stored have each passed a check; `SavesUndoNothing`: a save that omits a part leaves what others stored of it |
| `Scoping` | 3 requests, 1 connection, 2 tenants, with fairness | `OwnTenantOnly`: a query runs under the role and tenant of its own request; `FailedLookupIsForgotten`; `EveryRequestEnds`: the pool gets back what it lent, with lookups and requests competing for the one connection, which may break at any statement |
| `Throttling` | 1 source, 2 instances, 2 requests at a time, limit 2, threshold 3, with fairness | `WindowLimit`; `GuessesBounded` and `OpenMeansFew`, also when the password is reset under a lock; every window ends unless its expiry was lost (`WindowsEnd`) |
| `Mfa` | 1 secret, 2 recovery codes, 3 steps of the clock, 2 requests, with fairness | `CodeOpensOneSession`, at the gate and across the enrolment; nobody waits for ever for a row somebody claimed (`EveryRequestEnds`) |
| `Administration` | 3 kinds, 2 items of which one implies the other, 2 requests, with fairness | `PermissionsClosed`; `ReplacementHolds`: what a replacement leaves differs from what was asked by what others committed, and by nothing else; everybody is answered (`EveryRequestEnds`) |
| `Tenants` | name and package, 2 values, 2 requests at a time, 4 changes | `LogTellsTenant`: lifecycle entries balance to the status, and a field's newest entry says what it is, unless a change committed while the transaction that wrote the field last was open; `ShowsOwnSave`, `PendingIsPicked`, `QuietIsUsable`: the desk ends up showing its own save, offers to save nothing nobody chose, and keeps no control waiting |
| `PortalSession` | 2 tabs, 3 tokens, 1 request per tab | `TabsHoldTheCurrentToken`, `ReplaysAreAccountedFor`: a spent token is presented only by a duplicated tab or a page that was left in mid-exchange; `ShownIsCredentialed` |

**Why the bounds are enough.** Two connections are what a race needs. Three
tokens are a session, its exchange and either a second exchange or a second
session; two links let a redemption burn, and deadlock with, another one. Three
people exceed an allowance of one by the largest overshoot two connections
allow, and three invitations leave one to invite somebody again. Two clients, two
authorities and two secrets are what a mixture of two saves needs, in the run of
the saves; two devices and two
instances a leader, somebody who joins, and a cache no save evicts. Three
requests over one connection are a lookup, one who shares it and one in the
queue behind both. Three steps of the clock are a window whose first code has
left it. In `Throttling` a limit below the threshold, both reached, and two
requests that overtake each other; two sources would only be the same again, as
no action looks at two. In `Administration` two items are a row both
replacements want and one only one does, and a pair for a deadlock. Four changes
in `Tenants` are a save of the desk between two of another operator, and one
more; two requests at a time are an older transaction that commits last; seats have the same handlers as the package and are left to the proof.
Tokens, links, invitations, recovery codes, changes, the clock: each bounds a
run, and an operation that would mint one more is simply not possible, which no
safety property notices and no liveness property relies on.

Deadlock checking is on but for `Scoping`, where each request is served once, so
that the system stops when all are. Elsewhere, when every id is spent, a request
that will be refused or rolled back, a status change or a restart is still there
to take a step.

### What disagrees with what the repository says

`Throttling_orphan` is the standing run of this kind: an instance that stops
between INCR and PEXPIRE leaves a key that is never reset, against
`rate-limit.service.ts:44-47` and the guard's "Wait a moment and try again"
(`RefusedIsAdmittedAgain`; the counterexample is a fair behaviour).

The same models contain the following disagreements, each found by adding the
property named to a run of its module, or, where none is named, by the sentence
as a property.

* *Sessions.* README.md:326, presenting a spent token revokes the entire family
  (`ReplayEndsFamily`): the `UPDATE` does not see a child whose exchange commits
  after its snapshot; a sign-out that races an exchange misses the child the same
  way, against `auth.service.ts:322-324`. README.md:416-418, a password can never
  change without its sessions going with it (`PasswordChangeEndsSessions`): a
  sign-in that read the old hash inserts its session after the sweep, and a
  challenge issued before it can be answered after it. The portal's `en.ts:623`,
  a suspended user "will be signed out" until this is undone: `setUserStatus`
  revokes nothing, so the session is good again when access is restored; and a
  reset in progress (`password-reset.ts:253`) writes `active` over a suspension
  committed while the password was hashed.
* *Members.* `invitations.ts:113`, "A single-use invitation token"
  (`InvitationSingleUse`): two acceptances that read it before either commits
  both set a password. `invitations.ts:328`, "sets the user's first password":
  the earlier of two links of a person still sets the password of the account the
  later one opened. An acceptance (`invitations.ts:378`) lifts a suspension like
  a reset does. `modules.ts:430`, "one seat of overshoot": n concurrent
  invitations overshoot by n − 1, which is what `SeatsBounded` states and
  `SeatsAreBounded` proves.
* *ErpConnection.* `connections.ts:318-320`, no path stores an untested
  credential (`StoredIsTested`): an omitted secret, or authority host, is resolved
  before the check (lines 299-300) and again by the UPDATE (lines 337-338), so that
  two overlapping saves store a client, an authority and a secret that were each
  tested, and never together. `d365-token.cache.ts:97-99`, a replaced secret's token must
  not stay cached (`ReplacedSecretIsEvicted`): an exchange in flight caches it
  after the eviction.
* *Mfa.* `mfa.ts:133-135`, "the code proves the app holds the same secret the
  server does" (`EnabledSecretIsProven`, with two `Secrets`): a second begin
  between the check and the commit replaces the secret the code was computed
  from, and the account is enrolled with one nobody has proven. Two confirmations
  with different codes leave twenty valid recovery codes.
* *Administration.* `mobile-config.ts:151-153`, two administrators cannot
  "interleave into an arrangement neither of them chose — the same reasoning as
  `PUT /users/:id/roles`" (`AsSomebodyChose`): two replacements of a user's roles
  can. A role the `DELETE` removed and the read did not show is revoked without an
  audit entry.
* *PortalSession.* `error.interceptor.ts:33`, "The credential is no longer good,
  so the in-memory session is a lie" (`OnlyItsOwnRefusalEnds`, with `MaxCalls`
  2): the 401 of a request that an earlier session sent ends the one signed in
  since.
* *Tenants.* `tenant-administration.ts:448-449`, and `modules.ts:463-464` of the
  seats: "a retried request writes no second audit entry" – a retry that overlaps
  the first request reads the old value and writes one, and the value before that
  an entry names may be one the tenant no longer had. `audit.ts:153` and `:161`
  call the trail "newest last" and "newest first" (`NewestEntryTellsTenant`): its
  order is that of the transactions' beginnings, so when one that began first
  updates last, the trail ends with the other's entry while the row holds this
  one's value; and lifecycle entries of overlapping transactions, which alternate
  as they commit, need not alternate in it.
  `tenant-subscription.component.ts:288-292`, a choice not yet submitted is not
  lost when the page refetches: the effects (lines 415-434) take the inputs from
  whatever tenant comes in. The comment of `onTenantChanged`
  (`platform-tenant-detail.page.ts:672-679`) relies on the answer being the
  tenant: two overlapping requests of the desk may leave the older answer on the
  page, which is why `ShowsOwnSave` speaks of the last request sent alone.

### Fairness

* `Sessions`: strong fairness of each connection's `Step` – PostgreSQL executes
  the statements it is given and serves the waiters of a row in turn, so a
  statement that could run again and again does – and weak fairness of
  `DeadlockVictim`, its deadlock detector. `Rollback` alone has none: nothing
  makes a request fail. `Administration` likewise.
* `Mfa`: weak fairness of a request's steps, strong fairness of the two claims,
  which queue for a row.
* `Scoping`: weak fairness of a request's steps and of the pool, whose queue is
  first come, first served. Nothing breaks or fails by fairness. That a statement
  is always answered is an assumption: the pool (`pool.ts:32`) sets no statement
  timeout, and a server that hangs would hold everybody up.
* `Throttling`: weak fairness of a request's steps, of the expiry of the keys
  that have one, and of the end of a lock. No instance stops, and no Redis fails,
  by fairness.
* `ErpConnection`: weak fairness of the steps of a device and of an
  administrator – Node runs the continuation of every settled promise, and every
  call out has an `AbortSignal` timeout, so each promise settles – and of
  `TokenExpires`, as a token has an `expires_in`. New requests and restarts are
  never fair.
* `Members` has no liveness property: nobody there waits for two rows, so
  nobody waits for ever once PostgreSQL serves waiters in turn. `Tenants` and
  `PortalSession` have none either: a network that loses answers and an operator
  who does nothing are not fair; what a desk or a tab must be once it is at rest
  is stated as an invariant instead (`QuietIsUsable`, `ShowsOwnSave`).

## 5. Proofs

**`SessionsProofs`**, from `SessionsAssumption` (the sets of ids are disjoint,
users with a second factor are users), for every number of users, tokens, links
and connections:

* `TypeCorrect`, `UnspentIsUnique`, `TokensAreSingleUse`,
  `RevocationReachesTheRoot` – the invariants `TypeOK`, `OneUnspentPerFamily`,
  `SingleUse`, `RevokedToTheRoot`;
* `SessionsImplementChain` – `Spec => ImplementsChain`.

None of them is inductive alone. That a family has one unspent token needs that
the token under exchange is locked by this transaction only (`LocksExclusive`),
is still unspent (`Sound`) and that the new id is nobody else's
(`NewTokensApart`). That revocation reaches the root needs a statement about
transactions that have not committed: `Doomed(x)`, what `x` has revoked and has
still to visit, is closed under parents up to what is revoked already – true
when the statement starts because it takes all unrevoked rows of a family or an
owner, kept while rows are visited because visiting moves them from `targets`
to `revoke`, and by concurrent commits because those only add to `revoked`, and
the parent a new child hangs from is locked by its exchange. `IInv` is the
conjunction; `InitIInv` and `Inductive` prove it, one step per action,
and `Sessions_account` checks the same formula with TLC.

The refinement needs `IInv` too: an exchange is a hand-over in `SessionChain`
because the parent is the family's only unspent token, and a family with none
stays without because only the exchange of an unspent token adds to it. What
`SessionChain` promises therefore holds of the API: `SessionsEndForGood`,
`Spec => Chain!EndedForGood`, a session that ended is never exchanged again.

Reset links, last in the same module, have an invariant of their own for
`LinksAreSingleUse` – `Spec => ResetLinkSingleUse`, an action property – and
`RedemptionsBurnTheRest` – `Spec => []RedemptionBurnsTheRest`. It is `LinkIInv`:
`IInv`, and for every transaction `RedemptionSound` – from the check of its link
to its commit a redemption holds that link's row, unburnt, and will burn it;
whatever else it burns belongs to the same account; and each link the account had
when the password was set is burnt already, or will be, or has still to be visited
by `BurnRow`. So the commit that changes the password redeems a link no other
transaction can have burnt or redeemed, and with nothing left to visit it has
burnt the rest.

**`MembersProofs`**, from `MembersAssumption` (finitely many connections,
positive allowances):

* `SeatsAreBounded` – `Spec => []SeatsBounded`;
* `AccessIsAlwaysEarned` – `Spec => []AccessIsEarned`.

The count of people alone is not inductive, as an invitation that has been
counted will add somebody later: `SeatsReserved` counts the people together with
those reservations (`Reserving`). A connection that counts and finds a seat
reserves one while at most all others hold one, hence connections − 1.
`AccessIsEarned` needs that what an acceptance or a status change read is still
true of the row it writes (`Sound`): passwords are never taken back and rows
never deleted. `Invariance` has both, with the rest of `IInv`.

* `MembersImplementDirectory` – `Spec => ImplementsDirectory`;
* `NobodyIsLost` – `Spec => Promised!NobodyIsLost`.

Three commits are steps of the directory, `InviteCommit`, `AcceptCommit` and
`StatusCommit`; everything else leaves it alone. An invitation to an address that is there
already changes nothing of it; a reinstatement is one because `Sound` says that
the row still has the password the handler read, and `AccessIsEarned` that only
an acceptance sets one.

**`ErpConnectionProofs`**, from `ErpConnectionAssumption` (`None` is no
credential and no device, there is an instance):

* `ExchangesAreShared` – `Spec => []SingleFlight`;
* `OnlyIssuedTokensAreSent` – `Spec => []TokensWereIssued`;
* `StoredPartsWereTested` – `Spec => []PartsWereTested`;
* `SavesKeepWhatTheyOmit` – `Spec => SavesUndoNothing`, an action property;
* `DevicesNeedACredential` – `Spec => []ResolvedIsConfigured`.

What a request holds across an `await` must still be worth something when it
resumes. `DeviceSound`: an exchange has a credential, and a device is only let
through once one is stored. `AdminSound`: what reaches the transaction of a save
has passed its check, where the secret is omitted there is one stored to resolve,
whichever save stored it last, and where the authority is omitted before anything
is stored the check was made with the default the row will have. A stored
credential is never removed, so these stay true under every other actor's steps.
What an `UPDATE` merges is then a client that was tested, and an authority and a
secret that were tested by this save or by the one that stored them.

**`ScopingProofs`**, from `ScopingAssumption` (the platform tenant is a tenant,
`None` is nobody), for every number of requests, connections and tenants:

* `OwnTenant` – `Spec => []OwnTenantOnly`;
* `LookupIsShared` – `Spec => []FailedLookupIsForgotten`.

What a query runs under depends on what the connection's earlier borrowers left
on it. `ConnectionsAreClean` says: nothing outside a transaction, and no
transaction in the pool, because each way from BEGIN back to the pool – COMMIT,
ROLLBACK, a connection that is thrown away – ends it. `OneBorrower` keeps other
requests off it in between, `SetUp` follows BEGIN, SET ROLE and set_config one by
one, and `ContextIsClaimed` says that the tenant they set is the token's.

**`SignInProofs`**, from `ThrottlingAssumption` (finitely many requests at a
time, a limit of at least one, a threshold above it): `WindowIsLimited`,
`FewGuesses` and `CountIsComplete` for `WindowLimit`, `GuessesBounded` and
`OpenMeansFew`. `PassedIsCounted` counts, with the requests that passed in a
window, those between INCR and the decision that will; `LockHolds` counts, with
the wrong passwords since the count was last cleared, those who had looked before
the account locked. It survives a reset under the lock because the reset clears
both counts; and the lapse of a lock forgets the guesses only when the count
stands at the threshold, so that `CountIsComplete` holds for what was answered
between the reset and the lapse.

And from `MfaAssumption` in the same module: `OneSessionPerCode` –
`Spec => []CodeOpensOneSession`. A claimed row has one owner and stays unspent
until the owner commits (`ClaimsExclusive`), so the commit that opens a session
is the only one that ever spends that row.

**`TenantsProofs`**, from `TenantsAssumption`: `LogIsTrue` –
`Spec => []LogTellsTenant`, for any number of requests, changes and values, and
whatever the desk does. A lifecycle transition is guarded by the row it updates
(`WHERE deleted_at IS NULL` and the like), which is why its entries balance – and
alternate in the order of their commits, though not in that of their dates.
Package, seats and name are read without a lock, and what an entry says is what
its own UPDATE wrote; whether it is also the newest entry depends on which
transaction began first. `DatesSound` says that a request is younger than the
newest entry of its field unless another change of that field committed since it
began, so that only an overtaken transaction can write an entry that is not the
newest (section 4). A commit marks every open request of its field, which is what
keeps this inductive (`CommitRaces`).

The desk has an invariant of its own, `DeskSound`, for `OwnSaveIsShown`
(`ShowsOwnSave`) and `NothingStaysBusy` (`QuietIsUsable`): a control is busy
because a request of it is under way whose answer will be heard (`BusyWaits`,
`CardGone`), a page that loads waits for its load (`LoadWaits`), and a request
that was sent alone stays the only one, so that its answer was read after every
save of the desk (`AloneWaits`, `AloneReads`, `StaleWaits`). `OffersAreChosen`
(`PendingIsPicked`) needs the types only.

**`AdministrationProofs`**, from `AdministrationAssumption`, for any number of
overlapping replacements:

* `ReadsComeWithWrites` – `Spec => []PermissionsClosed`;
* `OnlyOthersInterfere` – `Spec => ReplacementHolds`, an action property.

A row has one writer at a time (`RowsExclusive`), so what a DELETE has seen and
what it has not stay apart until its commit. Permissions are closed because the
rows a replacement leaves in place – those its DELETE did not see – are closed
themselves: they are what remains of other whole sets when whole sets are taken
away (`Sound`, `Closed(rows \ (next \cup del))`), and a union of closed sets is
closed.

**`PortalSessionProofs`**, from `PortalSessionAssumption` (tokens are none of the
server's other answers), for any number of tabs, tokens and requests on the way:

* `TabsAreCurrent` – `Spec => []TabsHoldTheCurrentToken`;
* `NoOtherReplays` – `Spec => []ReplaysAreAccountedFor`;
* `ShellIsCredentialed` – `Spec => []ShownIsCredentialed`;
* `ServerKeepsItsPromise` – `Spec => Server!Spec`;
* `RefusedForGood` – `Spec => Server!EndedForGood`.

A token is where a tab put it, on its way in a request, or in an answer not yet
read. `IInv` says of all three together that a token has one holder unless it is
`unsure` – copied by a duplicated tab, or sent by a page that was gone before the
answer – so that an exchange spends nobody else's; that a page is restoring
exactly while its one exchange is under way (`RestoresSound`), so that nothing
overwrites what the answer brings; that a token in an answer is the current one
of its session (`AnswersCurrent`, `ServerSound`); and that a tab shows whom its
credential is of (`CredentialsShown`). The last two theorems tie the module to
Sessions: each exchange the server makes is a hand-over of `SessionChain`, which
`SessionsImplementChain` shows the API to be.

Each inductive invariant was first an invariant of the run of its module; where
the proof establishes it and the run's other invariants are its conjuncts
(`Members`, `ErpConnection`, `Throttling`, `Mfa`, `Tenants`), or follow from it
(`LinkIInv` in `Sessions_reset`), the run keeps those only.

**Only model-checked**: liveness under fairness (`EveryRequestEnds`,
`EveryRequestAnswered`, `ReplacedSecretFades`, `WindowsEnd`), which is beyond the
prover, as is ENABLED, in which fairness is defined. Every safety property of a
passing run is stated by a theorem.

## 6. Not modelled

* *In modelled components.* Sessions: the refusals of a sign-in, which write
  nothing there. Members: the name and the roles an invitation also writes; an
  address taken in another tenant, which refuses the insert like a rival.
  ErpConnection: which environment a company names, the proxy's header and path
  allowlists, sealing. Mfa: how a code is computed from a secret. Administration:
  requests refused before they write. Tenants: the modules card, the invitation
  link, one page reused for two tenants. PortalSession: storage that throws.
  Scoping: what a policy filters, which is PostgreSQL's.
* *Components left out.* Access tokens are signing and comparison; claims stay
  as issued until they expire, which the design accepts. The audit log is an
  insert in the transaction it describes. Mobile configuration is one row written
  whole. Sealing, TOTP and hashing are pure functions unit tests reach. Health
  checks, logging and contracts keep no state another part depends on. The
  platform tier's operations are those of Members and Tenants on other rows; that
  two operators may suspend each other is a hazard no property covers yet.
* *The other screens.* Lists, forms and cards load, show and submit. Their one
  hard behaviour, an older answer that overwrites a newer one, is modelled where
  it can do harm, on the page that changes a tenant; in the lists the next load
  repairs it (`all-tenants.page.ts:512`: clearing the search leaves its timer
  running, and a slower page of the list replaces a newer one).
* *Not behaviour.* The larger part of the repository's lines are templates,
  styles, two catalogues of messages, seed data, schemas, documentation comments
  and generated configuration; there is nothing in them for a state machine to
  say, and the share of lines the models stand for has to be read with that in
  mind.
