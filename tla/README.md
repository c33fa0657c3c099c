# ZHeroDiZk: a TLA+ model of the control server, session grants and the panel

ZHeroDiZk manages remote access: operators sign in to a control server
(`crates/control`), administrators enrol devices and say who may do what on
which device, the server signs short session grants, and a device checks a grant
(`crates/grant`, `crates/access-policy`) before it opens a session. A web panel
(`panel`) is the operators' view of it. These modules model that path, from the
password to the session on the device, and state what must hold on it. They were
written from the Rust and TypeScript sources.

Contents: [inventory](#inventory) · [modules](#modules) ·
[how code becomes actions](#how-code-becomes-actions) ·
[runs](#what-the-runs-show) · [bounds](#bounds) · [fairness](#fairness) ·
[proofs](#what-is-proved) · [disagreements](#where-code-and-documents-disagree) ·
[not modelled](#what-is-not-modelled) · [plan](#plan).

To repeat a check: `tlc -config Access.cfg MCAccess`, `tlapm Access_proofs.tla`.

## Inventory

| Component | State it keeps | Operations | What makes it correct |
|---|---|---|---|
| access policy, `crates/access-policy` | none | `authorize` | nothing outside the intersection of server, grant and device; the window `[nbf, exp)` |
| session grants, `crates/grant` | `ReplayCache.seen` in memory | `sign`, `verify`, `accept`, `authorize_connection` | only signed, well-formed, unexpired claims get through; one grant, one session |
| agent on the device (external, planned in `docs/AGENT-INTEGRATION.md`) | cache, revocation list, requests in progress | verify → accept → authorize | the promise above although requests interleave and the cache forgets |
| accounts, `auth.rs`, `totp.rs` | `users`, `sessions`, `recovery_codes` | login, second step, logout, password change, enrol / confirm / disable the second factor | lockout, single use of factors and pending sessions, password change ends sessions |
| registration, row locks and connections, `auth.rs` | `users`, locks of rows, the pool of connections | `register` and the transactions of the handlers above | one first account; handlers do not all wait for each other |
| organisations, `orgs.rs`, `devices.rs` | `memberships`, `enrollment_tokens`, `devices` | create, add member, make token, enrol, revoke | roles are stable; token ↔ device; a key is one device |
| access, `groups.rs`, `grants.rs` | `device_groups`, members, `acl_rules`, `grants` | groups, rules, issue, revoke | access is inside one organisation and ends soon after it is taken away |
| rate limiter, `limiter.rs` | a table of windows behind a mutex | `limit_anonymous`, `check` | a bound on bursts of one address; nobody refused for another's requests; a bounded table |
| audit, `audit.rs` | `audit_events` | `record`, `list_events` | every change has its event; pages miss none |
| web panel, `panel/src` | token, loaded data, requests in flight | sign in and out, load, page | an answer of an earlier session or organisation does no harm |
| configuration, start-up, crypto, build tools, packaging | – | – | outside the model, see below |

How they meet. All server handlers are asynchronous functions over one pool of
database connections. They share nothing but the database and, in front of the
anonymous endpoints, the limiter's table: two requests interleave at every
`await`, a statement is atomic, a transaction holds row locks until it ends, and
a client that disconnects makes the server drop the handler between two of its
steps. `accounts` authenticates the callers of every other handler;
`organisations` gives them roles; `access` reads both and produces grants;
nearly all of them write to the audit journal. A grant reaches the device through the
operator, without a connection between server and device, so nothing the server
changes after it signed is seen by the device until the grant expires. The panel
sees sessions through the answers to its requests only, which arrive in any
order.

What is hard here:

* reads that are acted on later: `login` decides by a row it read before a
  deliberately slow password check, `issue_grant` signs and inserts a grant from
  rules read before, the limiter decides by a clock read before its mutex;
* single use under concurrency: TOTP steps, recovery codes, pending sessions,
  enrolment tokens, grant ids, the first account;
* forgetting at the right moment: the replay cache, the limiter's windows, locks
  and sessions that end;
* requests that end half-way and transactions that roll back;
* transactions that wait for each other, and for a connection;
* events that become visible out of the order of their ids, and answers that
  arrive after what they were asked for is gone.

`PROJECT.json` lists each hazard at its line with the properties that cover it.

## Modules

| Module | Models | Composes |
|---|---|---|
| `AccessPolicy` | `authorize` as an operator | – |
| `Grant` | `verify`, `check_claims`, `ReplayCache`, `authorize_connection` as operators | extends `AccessPolicy` |
| `Agent` | the device: requests in slots go through the three calls | extends `Grant`, refines `GrantOnce` |
| `GrantOnce` | abstract: while the agent runs, a grant opens at most one session, in its window | – |
| `Account` | the contents of one account and its sessions under concurrent requests | – |
| `AuthTransactions` | registration, and the locks and connections of all transactions of `auth.rs` | the same handlers as `Account`, seen as sequences of statements |
| `Tenancy` | roles, enrolment tokens, enrolment as a transaction | refines `EnrolOnce` |
| `EnrolOnce` | abstract: a token and a key enrol one device, at once | – |
| `Access` | groups, rules, device revocation, issued grants | relies on `Tenancy`'s `RolesAreStable` |
| `RateLimiter` | the middleware and its table of windows | – |
| `Audit` | handlers that change something and record it; `list_events` as an operator | – |
| `AuditPage` | the audit page of the panel, with its loads in flight | extends `Audit`: journal and page run together |
| `Panel` | the session of the panel, its loads and the server's sessions | – |
| `MCAgent`, `MCAccount`, `MCAccess`, `MCAuthTransactions`, `MCRateLimiter`, `MCAuditPage`, `MCPanel` | small instances for TLC | – |
| `*_proofs` | theorems about the module they are named after (`AuditPage_proofs`: about the journal as `AuditPage` composes it) | – |

`Access` takes roles and the organisation of a device as constants. `Tenancy`
justifies it: `RolesAreStable` is checked and proved there, and a device's
organisation is written only when it enrols. `Agent` assumes that two signed
claims with one id are the same claims (`JtiUnique`); `issue_grant` draws a fresh
UUID for each. `Account` makes a transaction one action; `AuthTransactions` opens
the same transactions up, without the contents of the rows, and shows what the
order of their locks can lead to.

A few definitions are commented as slips, such as `RetainedEarly` before
`Retained`: plausible bugs with the same parameters. Nothing uses them in the
model; substituted for their neighbour they break the property they are paired
with in `PROJECT.json`, which shows that the property can fail.

## How code becomes actions

* **Agent.** A slot is a request being handled: `Present` is a `verify` that
  succeeded (a refusal leaves no trace), `Accept` is `ReplayCache::accept` with
  its purge, `Decide` is `authorize_connection` for every possible local state
  and requested set. `Tick`, `Revoke` and `Restart` are the device's own.
  `FreshClock` says whether each call reads the clock or the request reads it once.
  A token is four fields: how far it parses, the key it names, who signed exactly
  this text, and its claims.
* **Account.** `reqs[r]` holds a handler's local variables and its `phase`, the
  statement it is about to run. `LoginRead` is the SELECT with the verdict of the
  password check that uses what was read; `LoginCommit` is the transaction.
  `ConsumeFactor` is the conditional UPDATE of `consume_totp` or of
  `recovery_codes`, `LoginMfaCommit` the transaction after it, `RegisterFailure`
  the UPDATE after a failed check. The handlers behind a token start with
  `Authenticate`, a statement of its own. `Drop` ends a request anywhere. When a
  request commits, the others that have read the account and not committed yet keep
  in `missed`, a history, what changed under them (`Overtake`).
  A transaction is one action: the row of `users` it locks orders those that
  decide something. Passwords stand for their hashes, a code for the secret and
  step it was computed from, one recovery code for a batch of ten.
* **AuthTransactions.** A handler is its `plan`: a sequence of transactions, each
  a sequence of statements, written as the lock a statement waits for or as
  `count`, `insert`, `record`. `Acquire` gets a row's lock and keeps it until
  `Commit` or a rollback (`Leave`); `Connect` waits for a connection of the pool;
  `Victim` is the one PostgreSQL sends an error when some wait in a circle.
  `change_password` may lock the other sessions in any order (`Orders`).
* **Tenancy.** `enroll` is four actions, with its locks in their guards:
  `EnrollSpend` waits for the token's row, `EnrollInsert` for the key in the
  unique index; nothing is visible before `EnrollCommit`, and `Drop` or a refusal
  rolls back.
* **Access.** Handlers with one writing statement are one action, because what
  they check before cannot change. `issue_grant` is three: `IssueRead` reads the
  rules, `IssueSign` the clock, for `not_before`, and `IssueInsert` is the
  transaction; rules, groups, devices and the clock may change between them.
* **RateLimiter.** `Arrive` reads the clock and names the address, `Check` is
  everything under the mutex. The clock is `elapsed - back + ahead`: `elapsed` is the
  time that passes, `SetBack` and `SetForward` are corrections. A request waits at
  most `MaxDelay` for the mutex.
* **Audit, AuditPage.** A handler is `Change`, `Record` and `Commit`; whether its
  change is visible before its event (`CommitsFirst`) depends on whether it has a
  transaction. `Record` draws the id, `Commit` makes the row visible. On the page,
  `Serve` is the moment `list_events` reads and `Arrive` the moment the answer is
  applied.
* **Panel.** A request is a record in flight with the token it left with; the
  number that `useLoad` gives a load is kept as `current`, whether it is the
  latest. Steps of React that follow a state change (the next render and its
  effects) are part of the step that changes it.

History variables are named as such: `opened`, `spent`, `failures`, `proved`,
`permitted`, `admitted`, `promise`, `asOf`, `overlapped` and the fields `pw`,
`missed`, `from` of a session, `missed` of a request to the account handlers, `read`
of one to the limiter and to `issue_grant`, `waited` of a grant, `token` of a device
and `by` of an event. No step of the program depends on them; `Tick` of the limiter
uses `read` to bound how long a request waits.

The clocks of `Agent`, `Account`, `Access` and `Tenancy` only go forward; the one of
`RateLimiter` may be corrected, because its windows are the shortest times here.

## What the runs show

Runs that pass (distinct states are those of one measurement):

| Run | Asks | States |
|---|---|---|
| `agent` | can two requests, a purge, an expiry, a revocation and a restart together open two sessions of one process with a grant? Refines `GrantOnce`; after `verify` the identity and content checks of the last stage never fire; the cache never keeps what expired | 490 k |
| `account_overlapping` | which requests can break a promise of the password, the lock and the pending login? Are failures counted and the account locked although guesses overlap? Which sessions outlive a password change, who can open one while the account is locked, or lift the lock, or exchange a pending login again? | 551 k |
| `account_second_factor` | can a factor work twice, can a password alone be enough, or can a secret nobody confirmed guard the account, while another request enrols, confirms, uses or disables the second factor? The inductive invariant | 510 k |
| `auth_transactions` | is there one first account however many register at once? which handlers can a deadlock make fail? can all wait for each other, for rows or for the two connections of the pool? | 390 k |
| `tenancy` | do concurrent enrolments behave like one at a time and all end, and do roles stay? Refines `EnrolOnce` | 76 k |
| `access` | when does access end that was taken away while `issue_grant` was between its steps? can group and rule changes in two organisations reach across? | 377 k |
| `limiter` | what does the limit bound when windows end, the table is purged, requests wait for the mutex and the clock is set back and forward? who is refused, is `Retry-After` honest, what makes the table grow? | 2 500 k |
| `audit` | does the journal tell what happened whatever fails? does a page show it without a hole or a repetition while events commit out of the order of their ids? is the page ever left busy? | 1 000 k |
| `panel` | does anything shown belong to another session or organisation when answers are late? when does the panel give up a session that lives? | 300 k |

Runs that end in a counterexample are the subject of
[disagreements](#where-code-and-documents-disagree).

The account handlers decide by what they read in an earlier statement, so with
overlapping requests most promises of the documentation can be broken. The
properties of `Account` do not assume the overlap away: each says which requests
it takes, namely one that was past its look at the account when a certain other
one committed (`missed`), and that nothing else does. For a request that missed
nothing they are the promise as documented.

What may surprise in the properties that hold:

* `BurstBound`: twice the limit fits around the boundary of two fixed windows,
  never more, less the delays and corrections of the clock, and a purge of the
  full table changes nothing about it (`WindowsApart`).
* `OnlyTheseDeadlock`: `login_mfa` locks its pending session and then the user's
  row, `change_password` the other way round. The database ends the circle by
  failing one of them; no other pair of handlers can meet in one.
* `EventsTellWhatHappened` leaves one case open: a handler that commits its change
  before it records it may leave the change without its event, and answers 500.
* `TableIsTheJournal` speaks of the journal as it was when the first page was
  read: an event with a smaller id that commits later is on no further page.
* `AccessEndsInTime`: a grant is valid for `GrantTtl` from the clock reading that
  follows the read of the rules, so the time between the two comes on top of it; the
  time until the insert does not.
* `LockIsKept`: a login that was in progress when the last failure locked the
  account lifts the lock when it commits.
* `RefusedForOwnRequests`: of the corrections of the clock only those back make an
  address wait longer.
* `LiveSessionIsKept` names the two ways in which the panel signs out a user whose
  session is alive.

## Bounds

| Bound | Where | Why it is enough |
|---|---|---|
| `MaxTime` | `Agent` 4, `Account` 2–3 from `StartTime` 2, `Access` 3 from 1, `RateLimiter` 3, `Tenancy` 2 from 0 | most lifetimes in the instances are one or two ticks, so locks, windows, pending sessions, tokens and grants are created, expire and are tried after their expiry |
| scenarios of `MCAccount` | `Guessing`, `SecondSteps`, `Exchanges`; `Enrolment`, `Using` | each chooses an account, its handlers and bounds of its own (`Within`); the clock runs in `Guessing` and stands still in the others, because their hazards are orders of steps |
| `Slot`, `Request` | 2; 1 in `access`; 3 in `audit` and `auth_transactions`, 3 slots in `panel` | most hazards are between two requests; three make a circle of locks with a third that holds a connection, and three events make pages; a grant depends on its own request only |
| `Connections` | 2 | fewer than the handlers, so they wait for one |
| `Session`, `Pending` of `AuthTransactions` | 2, one of them pending | one that changes the password and one it ends |
| `MaxFailedAttempts` | 2 | one failure below the limit and one that reaches it; the counter saturates there because the code only compares it with the limit |
| `MaxSessions` | 2–4, the first one open at the start | a session that changes the password, a pending one, and the one or two made from it |
| `MaxSecrets`, `MaxBatches` | 0–2 | the secret in use and one that replaces it |
| `MaxGrants` | 1 | the property is about each grant alone |
| `Limit`, `Window` | 1 and 2 | two admissions around a boundary and a third that must not fit, and time inside a window; that the counts add up for any limit is proved |
| `MaxTracked` | 1, with two addresses | the table is full with one, so that the other's requests purge |
| `MaxDelay`; `MaxCorrections` | 1; 2 | the properties are stated for any amount; one tick of waiting and two of corrections, back or forward, make each term of the bounds necessary |
| `PageLimit`, `MaxLimit`, `MaxLoads` | 2, clamped to 1; 2 | a page holds one event, so two and three pages happen, with two loads in flight |
| `Session` of `Panel` | 3 (2 in `panel_signs_out`) | one to be late, one that follows it, one more |
| `Org` of `Tenancy` | 1 | roles and tokens of one organisation touch no other; that a device enters its token's organisation is proved for any number |
| tokens of `MCAgent` | 2 good, 12 refused | one token per reason of `verify` to refuse |
| `MaxLifetime`, `StartSkew`, `GrantTtl`, TTLs | 1–3 | only their order to each other and to the clock matters |

One tick is one TOTP period in `Account`, and the smallest unit of the clock
elsewhere. `StartTime` is not 0 because the first accepted step must be larger
than the column's default 0, as every real step is. Symmetry is declared on
requests, slots, groups, addresses, sessions, organisations and emails where a
module and its properties do not tell them apart, and not in `tenancy`, which
checks liveness.

Deadlock of the whole model is checked where the actions that repeat (`Drop`, a
refusal, a new request) leave no state without a step. It is switched off in
`limiter`, whose clock ends at `MaxTime`, in `audit`, whose requests are each handled
once, and in the two `panel` runs, whose sessions are used up: there a behaviour
ends because a bound ends it.

## Fairness

Only `EnrolEnds` needs fairness. A statement whose locks are free is executed
(`WF` on the commit). The two statements that may wait get `SF`: PostgreSQL
queues the waiters of a row or of a unique entry in order, so a transaction is
not overtaken for ever by newcomers although the lock is taken again and again
in between. `EnrollBegin` and `Drop` are not fair: nobody has to come, and no
connection has to break.

`SomebodyGoesOn` says what liveness of the account handlers rests on without a
temporal formula: in every state with handlers in progress the statement of one of
them has nothing to wait for, or is in a circle that the database breaks
(`Ready`); new requests and clients that give up are not counted on. It is an
invariant, and proved (`TheRoundGoesOn`). `HandlersNeverGoBack` is the other half:
each step of a handler ends it or brings it further in its plan, so a round of
requests to which no new one is added ends.

## What is proved

All theorems hold for every value of the constants that satisfies the named
assumptions.

| Theorem | States |
|---|---|
| `Agent_proofs`: `AgentInvariant`, `AgentTypeOK`, `OneSession` | `[]IInv`, `[]TypeOK`, `[]OneSessionPerGrant` |
| `Agent_proofs`: `CachePurges`, `VerifiedClaimsAreWellFormed` | `CacheIsUnexpired`, `VerifiedIsWellFormed` |
| `Agent_proofs`: `AgentImplementsOnce` | `Spec => Implements` |
| `Agent_proofs`: `AuthorizeIsMonotone`, `SessionIsWithinTheGrant` | of the operators `Authorize`, `Verify` and `AuthorizeConnection`, for all arguments |
| `Account_proofs`: `AccountTypeOK`, `AccountInvariant`, `AccountFailuresLock`, `AccountOnlyOverlappingLoginsSurvive`, `AccountPendingIsSingleUse` | `[]TypeOK`, `[]AccountInv` and three of its consequences, with any number of overlapping requests |
| `Account_proofs`: `AccountLockedOpensNoSession`, `AccountLockIsKept`, `AccountCurrentPasswordIsRequired`, `AccountPasswordAloneIsNotEnough`, `AccountActiveSecretWasConfirmed`, `AccountFactorOnce` | the action properties of those names, with any number of overlapping requests |
| `AuthTransactions_proofs`: `AuthTransactionsTypeOK`, `RegistrationInvariant`, `OnlyTheFirstAccount` | `[]TypeOK`, `[]RegistrationInv`, `[]FirstAccountOnly` |
| `AuthTransactions_proofs`: `LocksFollowThePlan`, `NoOtherDeadlock` | `[]LockInv`, `[]OnlyTheseDeadlock` |
| `AuthTransactions_proofs`: `PoolIsBounded`, `TheRoundGoesOn` | `[]PoolInv`, `[]SomebodyGoesOn` |
| `AuthTransactions_proofs`: `HandlersNeverGoBack` | `NeverBack`, defined there |
| `Tenancy_proofs`: `TenancyInvariant`, `TokenSpentMeansEnrolled` | `[]IInv`, `[]SpentMeansEnrolled` |
| `Tenancy_proofs`: `RolesNeverChange` | `RolesAreStable` |
| `Tenancy_proofs`: `EnrolmentIsAtomic` | `Spec => Implements` |
| `Access_proofs`: `AccessInvariant`, `AccessEnds` | `[]IInv`, `[]AccessEndsInTime` |
| `Access_proofs`: `TenantInvariant`, `TenantsNeverMix` | `[]TenantInv`, `[]TenantsStayApart` |
| `RateLimiter_proofs`: `LimiterWindowsApart`, `LimiterBurstBound` | `WindowsApart`, `[]BurstBound` |
| `RateLimiter_proofs`: `LimiterRefusesForOwnRequests`, `LimiterRetryAfterIsHonest`, `LimiterTableIsOfLiveWindows` | `RefusedForOwnRequests`, `RetryAfterIsHonest`, `OnlyLiveWindowsBeyondTheTable` |
| `AuditPage_proofs`: `JournalInvariant`, `EventsAreTrue` | `[]AuditInv`, `[]EventsTellWhatHappened` |
| `AuditPage_proofs`: `PageInvariant`, `AuditPageTypeOK`, `BusyIsHonest`, `TableHasNoHole` | `[]PageInv`, `[]TypeOK`, `[]BusyMeansLoading`, `[]TableIsTheJournal` |
| `Panel_proofs`: `PanelInvariant`, `PanelTypeOK`, `PanelDataIsOfTheSession`, `PanelListIsOfTheOrg`, `PanelKeepsLiveSession` | `[]PanelInv` and its parts, `LiveSessionIsKept` |

**Agent.** The theorems hold for an agent that reads its clock for every call and
for one that reads it once per request (`FreshClock`); only `AgentImplementsOnce`
takes the first as hypothesis. Two things are assumed by the model and hold in all of
them: a restart starts the count of sessions anew, and the device's clock never goes
back. "One session" is not inductive: a request past
the cache could open a second session if the cache had forgotten the first. The
invariant says why it cannot matter: until a grant expires, having opened a
session or being past the cache is remembered with the signed expiry
(`Remembered`), so two requests past the cache with one grant
(`OneAccepted`), or one past it after a session (`NoneAcceptedAfterSession`),
exist only when the grant has expired, and then `authorize` refuses, if it is given
a reading of that moment. Assumptions:
`JtiUnique`, `TokenTimes`, `AgentConstants`, `GrantConstants`;
`VerifiedClaimsAreWellFormed` also takes `Org # Blank`, because an agent enrolled
in an organisation without a name would pass a check of `verify` and not the later
one. The last two theorems are about the pure functions and need no state:
`AuthorizeIsMonotone` says that nobody gains by having less, which the order of the
many early returns does not make obvious, and `SessionIsWithinTheGrant` what the two
functions guarantee together, although they check different halves of it at
different times.

**Account.** None of the properties is inductive, because a request acts on what
it read in an earlier step. `AccountInv` says of every request in progress that what
it read is still what the rows hold, or that its `missed` names the request that
changed it (`StillSoOrMissed`, `PendingHeldOrMissed`, `SecretHeldOrMissed`), and of
what was spent and exchanged that it is gone for all others (`SpentStaysSpent`,
`ExchangedIsRevoked`). The proof goes by what a step can mean for another request:
it starts to act by reading, hears of every change while it acts, and ends with its
own commit. The number of requests is not bounded, and nothing is assumed of how
they overlap. Assumptions: `AccountConstants`, `FreshUsers`.

**AuthTransactions.** `FirstAccountOnly` is not inductive, because a transaction
that has counted could insert later. `RegistrationInv` adds that whoever counted
holds the advisory lock and that what it read is still true. For the deadlocks,
`LockInv` says that a held lock is one of those the earlier statements of the
holder's transaction take. A circle consists of handlers that hold one lock and wait
for another, and from the plans the only handlers in which this happens outside
`change_password` and `login_mfa` wait for the recovery codes, whose holder waits
for nothing more. `SomebodyGoesOn` adds the pool: by `PoolInv` a handler waits for a
connection only while others hold them all, so some handler is connected; if every
connected one waits for a lock, each waits for one whose holder is connected and
waits as well, and a smallest set closed under this is a circle. Nothing is assumed
of the number of requests; that the pool is finite is enough. Assumption:
`AuthTransactionsConstants`.

**Tenancy.** `SpentMeansEnrolled` needs that a transaction past its first
statement holds a token that is unspent and that no other such transaction
holds, and past its second a key that is new and its own (`HoldersAreApart`).
Assumption: `TenancyConstants`.

**Access.** `AccessEndsInTime` speaks of what was permitted in the past, so it
needs a history: `permitted` says when each user was last permitted each
capability on each device. A request in progress holds capabilities that were
permitted when it read the rules or later, and that was before it fixed `not_before`
(`InFlightWasPermitted`); so a grant outlives what it rests on by `GrantTtl` and by
the time between those two readings, however late the insert comes.
`TenantsNeverMix` follows from an invariant of its own, `TenantInv`: rules are for
members, and the devices of a group are of the group's organisation. Assumption:
`AccessConstants`.

**RateLimiter.** `WindowsInv` says that an address without an entry had a window
that is over, whatever was purged; `WindowsApart` follows. `BurstInv` relates the
list of admissions to the window they were counted in: those the entry counted
are in the window in force, at most `Limit` in the one before, and the rest lies a
window's length back. `RefusalInv` is the same from the other side: a count is
backed by that many admissions of the same address in its window, and a reading
after a window's start is as far from it as the time that passed, less what the clock
was set back (`FarFromStart`), so whoever is refused made the requests. That the table grows past `MaxTracked` only with live
windows needs that it is finite at all, which is invariant too. Assumption:
`LimiterConstants`.

**Audit.** `AuditInv` says what a handler has written by its phase, and that a
drawn id belongs to one handler. So the ids of visible rows differ, which makes the
rank of a row a bijection onto the places of the sorted list: a page is the rows
next below `before`, without a hole above its last. `PageInv` carries this through
the loads: an answer in flight has no hole below the `before` it was asked for, the
table has none above its last row, and a load for more was sent with the end of the
table as its `before`, as long as no second load overlapped it. Appending the one
to the other then leaves no hole. Assumptions: `AuditConstants`,
`AuditPageConstants`.

**Panel.** What is shown is right because the answers that are applied are: the
latest load of each kind was sent by the session and for the organisation of now
(`LatestLoadsAreOfNow`), and there is one login at a time (`LoginsAreAlone`).
`LiveSessionIsKept` also needs that a session the server refused once does not
come to life again (`RefusedIsOver`).

Invariants marked "Why" in a module (`TenantInv`,
`RegistrationInv`, `LockInv`, `PoolInv`, `BurstInv`, `RefusalInv`, `AuditInv`,
`PageInv`) were checked with TLC on the instances
above before they were proved; the runs check the promises they imply, and the
inductive invariants of `Agent`, `Account`, `Access`, `Tenancy` and `Panel` themselves.

Only model-checked: `EnrolEnds`, since liveness under fairness is out of the
prover's reach. Every other property of a passing run is stated by a theorem above.

## Where code and documents disagree

The first three are runs that end in a counterexample, with their lines in
`PROJECT.json`.

* `account_keeps_old_session`: a login that read the row before a password change
  acts on what it read. Looking at the row again in the committing transaction
  would close this and its siblings below.
* `registration_long_email`: an email of 201 to 254 characters passes
  `normalize_email` and does not fit the `target` of its audit event, so the
  registration is rolled back and answered 500.
* `panel_signs_out`: a wrong code in the form that disables the second factor is
  answered 401, which the panel takes for the end of the session.

The same models show more when a constant or a property is changed:

* `StartSkewTolerated` of `Agent`, as a PROPERTY: the skew at the start of a grant
  that `verify` tolerates is refused by `authorize`, after the id was used up.
* `FreshClock = FALSE` in `MCAgent.cfg`: `Implements` does not survive one clock
  reading per request, which is how the integration document writes the calls: a
  request that came in time opens a second session after the grant expired and was
  forgotten. `OneSessionPerGrant` says that this is the only case. An agent that
  reads the clock for every call keeps the promise.
* `Account`, when a property is stated without its exception, as the documentation
  does. A login in progress acts on the lock (`LockedOpensNoSession`, `LockIsKept`)
  and on `mfa_enabled` (`PasswordAloneIsNotEnough`) that it read; two second steps
  revoke their pending session without asking whether it still was live
  (`PendingIsSingleUse`); two overlapping changes may start from one current password
  (`CurrentPasswordIsRequired`); `mfa_enroll` and `mfa_confirm` write without a
  condition on what they read, so that another secret becomes active than the one a
  code was shown for (`ActiveSecretWasConfirmed`), and a second `mfa_confirm` sets the
  last accepted step back (`FactorOnce`).
* `TableIsTheJournal` without its condition: on the audit page, Refresh and a switch
  of the organisation do not wait for the load in flight, so a late answer can
  show another organisation's events, or one page twice.

From reading, not from a run: after a reload of the browser the panel's first requests
leave before `config.json` has set the base of the API
(`panel/src/App.tsx:97-101` and `:122`), which an `apiBase` of its own
(`docs/MANUAL.md:204`) needs. The agent's cache is not stored, so a grant that is
valid across a restart of the agent can be used again, and so can one that expired
and was forgotten when the device's clock is set back. And a grant may be issued
just after the rule it rests on went; what `access` shows is how long it can live.

## What is not modelled

* The address book: an upsert and a delete of the caller's own row, each one
  statement.
* Group names, the mode of a grant on the server side and the read-only handlers:
  they change nothing the properties speak of.
* `is_active` of a user: no handler writes it.
* Cryptography, encodings, Argon2, TOTP arithmetic: abstracted to what they
  guarantee. Collisions are ignored.
* In the panel: the forms of the other pages, which send a request and reload a
  list as the modelled page does; the two steps of a login with a second factor,
  which are one request here; the base of the API.
* Corrections of the clock, except in the limiter.
* In the limiter, a mutex poisoned by a panic (it is used on) and a clock before 1970.
* Configuration, migrations as such, start-up, packaging, CI and the tools that
  patch and build the upstream client and server: input and output.
* The upstream client and relay, except the loop `Agent` assumes.

## Plan

Done: access policy, grant, agent; accounts; registration and locks; tenancy;
access; the limiter; the journal and its page; the panel; the proofs above.

What would add most next:

1. `ControlAndAgent`: `Access` composed with one device per grant (`GrantOnce`), with
   two clocks: how long after access was taken away a session can still be opened,
   as a sum of `GrantTtl` and the skew.
2. The two steps of a login in `Panel`, and the forms of its other pages.
