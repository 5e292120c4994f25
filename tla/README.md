# Odudu: sign-in, token families, token requests and delivery queues, modelled, checked and proved

Odudu is a multi-tenant OpenID Connect and OAuth server (TypeScript, Fastify,
PostgreSQL). This directory holds TLA+ specifications of its core, the TLC
configurations that check them on small instances, and TLAPS proofs. Source
paths below are relative to `src/`.

## The system

Every request is served by a Node process that keeps no state of its own
beyond caches and throttles: state lives in PostgreSQL, scoped to a tenant by
row-level security (`packages/db/src/tx.ts`). Any number of processes serve
the same database. Concurrency is therefore the database's: READ COMMITTED
transactions of several statements, one row lock or advisory lock at a time.
The exceptions are the connection pool of a process, and the console gateway,
which runs in it and keeps its flights and its semaphore in memory.

| Component | State | Operations | What is hard |
|---|---|---|---|
| Token families (`packages/protocol-oidc/src/usecase/token-issuance.ts`, `refresh-rotation.ts`) | `authorization_codes`, `token_grants`, `refresh_tokens` | redeem a code, rotate a refresh token, detect reuse and replay | two presentations at once, a refusal that must roll back, a revocation that must not, what was read before a rotation and used after it |
| Endings of a family (`usecase/end-session.ts`, `usecase/revocation.ts`, admin consents and grants) | `revoked_at`, `sessions.expires_at` | logout, recovery, RFC 7009 revocation, consent withdrawal | landing between two statements of a rotation |
| Sessions (`packages/authn-flows`) | `sessions` | establish, touch, end, evict, liveness | exclusive boundaries, a session that dies under a grant |
| Retention (`apps/server/src/cli/reap.ts`) | deletes rows | one pass per tenant, in a fixed order, in one transaction | snapshots older than the locks they wait for; foreign keys that act on delete |
| Session admission (`usecase/session-admission.ts`) | `sessions`, browser cookies | admit, evict over the cap | two logins of one browser, each evicting from the list its own request presented |
| Client assertions (`usecase/private-key-jwt-authentication.ts`) | `client_assertion_jti` | try the lock, look up, work in a savepoint, spend | spending what a failed request used; a write the store refuses |
| Connection pool (`packages/db/src/client.ts`) | idle connections, a queue | withTenant | a transaction that asks for a second connection while it holds one |
| Logout deliveries and mail outbox (`send-logouts.ts`, `packages/email`) | queue rows with lease and attempts | claim, send, mark | death between claim, send and mark; a pass longer than its lease |
| Login lockout (`packages/domain-identity`) | `login_failures` | record by compare-and-swap, clear | lost updates, a row deleted between read and write |
| Authentication flow executor (`packages/authn-flows/src/usecase/executor.ts`) | `authentication_sessions` | advance an attempt, reset, consume | a record read without a lock and written from later; several tabs; one code verified twice |
| Account actions (`packages/account`) | action tokens, pending registrations | verify, reset, register | single use, mail sent before commit |
| Console gateway (`packages/console-gateway`) | `console_sessions`, flights, a semaphore | sign in, refresh for the browser, log out | a refresh token that may be presented once only; three connections per refresh |
| MCP (`packages/mcp`, `mint-agent-token.ts`) | `agent_writes`, `agent_creates` | spend a budget | the limit |
| Tenant domains, administration API, authorization data, themes, keys, throttles | configuration rows, counters | edits | mostly single transactions |
| Admin console, docs site, i18n, contracts, views | none | rendering | none |

What makes the modelled part correct:

- a family has at most one refresh token that can still be used;
- a code yields at most one grant;
- presenting a used token or a redeemed code ends the family it belonged to,
  whatever else is going on, for as long as the family lives;
- a family that is over yields nothing, even to a request that was admitted
  before it ended;
- a request that is going to be refused spends nothing, and nobody spends
  another client's token;
- retention deletes nothing a later decision needs;
- an assertion serves one request, and is spent whatever becomes of it, as long
  as it is looked up right after it was verified;
- the console never presents a refresh token twice unless an answer was lost;
- waiting for connections, slots, flights and rows ends, in a pool large enough
  for the refreshes in flight, and whatever was taken of them is given back once;
- an attempt becomes one session at most, of a person who passed in it every
  factor the flow asks, and a time-based code serves once;
- every failed sign-in counts towards the lockout, but for two that find the same
  run gone quiet;
- no attempt of a mail is handed over twice, no two passes post one logout
  delivery side by side, and everything queued is in the end settled.

## Modules

**GrantRules** holds the rules that decide a request from records already
read: `EvaluateRefreshGrant`, `EvaluateAuthorizationCodeGrant`, the
registration policy's ceiling, resource narrowing, and the coherence of MCP
scopes with an audience. Scopes and audiences are sets; redirect URI and PKCE
are one Boolean.

**TokenFamilies** is the state machine. Its variables are the four tables
(`session`, `code`, `grant`, `token`), the settings read by the rules
(`enabled`, `policy`), the clock, each request's place in its handler with the
values it carries (`pc`, `req`), and the retention pass (`reap`).

*Granularity.* An action is one SQL statement, or a run of statements no other
transaction can tell apart. A transaction's own writes become visible in the
action that commits it; until then the row's lock is what others meet. So the
lock on a token is `TokenHolders`: the requests whose `pc` lies between
`consume` and commit. A waiting statement is an action whose guard is false;
PostgreSQL's re-evaluation of the predicate after the wait is the action
judging the row as the holder left it. The pass is the exception, deliberately:
a DELETE re-evaluates only the row it waited for, so what it read from *other*
rows is still its snapshot (`ReapTokens` chooses, `ReapTokensLock` waits).
Foreign keys act in `CodeInsert` (a share lock and a check), `RotateCommit` (a
check) and `ReapCommit` (cascade, set null).

| Code | Actions |
|---|---|
| `issueRefreshTokens`, gate | `PresentRefreshToken` with `GateVerdict` |
| `rotateRefreshToken` | `RotateBegin`, `RotateConsume`, `RotateLookup`, `RotateReuse`, `RotateReadGrant`, `RotateReadSession`, `RotateCommit` |
| `issueRefreshTokens`, after rotation | `MintRefreshed` with `MintVerdict` |
| `redeemAuthorizationCode`, `issueAuthorizationCodeTokens` | `PresentCode`, `CodeConsume`, `CodeLookup`, `CodeReplay`, `CodeDecide`, `CodeInsert`, `CodeCommit` |
| `endSession`, `endAllAccess`, `admitSession`'s eviction | `EndSession`, `EndAllAccess`, `EvictSession` |
| revocation endpoint, consent or grants withdrawn | `RespondToRevocationRequest`, `RevokeForSubjectClient` |
| `establishSession`, `issueAuthorizationCode`, `setEnabled`, the tenant's policy | `Login`, `IssueAuthorizationCode`, `SetEnabled`, `SetPolicy` |
| `reapTenant` in `withEachTenantExclusive` | `ReapBegin` ... `ReapCommit` |
| a failed statement, a dead process, a lost answer | `Fail`, `ReapFail` |

*Abstractions.* One tenant and one subject: all rows are scoped to a tenant
and no rule relates two subjects. Audit rows are left out; both that could take
a revocation down with them are written in a savepoint whose failure is caught.
The gate's three reads are one action: each rule reads one row, and the reads
that matter are taken again after rotation. Scope assignments (`resolveScope`)
do not change, and every client is configured for both grants. Random
identifiers are handed out in order. Signing, claims and lifetimes of access
tokens are not represented; nor are `client_credentials` (no family) and token
exchange (`exp_ceiling`, lineage). The application's clock and the database's
are one clock, and a request may straddle ticks of it.

History variables are fields no action of the code reads: `grant.from`,
`req.spent`, `req.ended`.

Operators whose comment begins with *Fault* are seeded bugs, kept beside the
definition each would replace; no action of the specification uses them. They
show that each property can fail.

**LeaseQueue** is what the two queues share: rows with `attempts`,
`next_attempt_at`, an outcome and an error, the claim's SELECT (`Due`,
`BatchesOf`), the retention rule, and passes that read the clock once
(`PassStart`). Instants are relative: `next` is `next_attempt_at` counted from
the present, and `age` is how long ago a pass read its clock, so a tick lowers
every `next` and raises every `age`, and no run needs an end of time. An instant
more than `MaxPassTicks` ago is due for every pass; `next` stops there.

**Outbox** and **LogoutQueue** extend it, and differ where the code does:

| | `Outbox` (`sendPending`) | `LogoutQueue` (`sendLogoutsAcrossTenants`) |
|---|---|---|
| claim | its own transaction, visible at once: `ClaimBatch` | part of the pass's one transaction; until `Commit` others see only the row lock: `ClaimDue` |
| send | `ResolveSender` or `SenderUnresolved`, then `Send`, no transaction open | `DeliverOne`, inside the transaction |
| outcome | a transaction each: `MarkSent`, `MarkFailed`, or `MarkLost` when the write throws | kept in `held` by `DeliverOne`, written by `Commit` |
| a pass that fails | `Crash`: claim and attempt stay, the lease runs | `Abort`: all is rolled back but the posts |
| retry | doubling delay (`RetryDelay`) | constant backoff; a 4xx other than 429 ends it |
| new rows | `Enqueue`, in the transaction that produced the mail | `Enqueue`, `endSessions`' insert; a no-op while the row exists |

*Abstractions.* One tenant, since a claim is confined to one; that a pass
serves other tenants first is why its instant may be old when it claims. What a
message says, and which token a post carries, are left out. Retention windows
are at their shortest, so a row may go as soon as its rule allows. A sender that
dies before it claims leaves nothing behind, so it dies only afterwards.
`handed`, `posts` and `answered` are history variables; `cur` and `claim` are a
sender's locals.

**TokenRequests** composes the two callers of the token endpoint with the pool
of the process that serves them. `free` and `queue` are the pool: an idle
connection serves the head of the queue (postgres.js), and a step that keeps its
connection while it asks for another is `KeepAndAsk`.

| Code | Actions |
|---|---|
| `authenticatePrivateKeyJwt`: the checks and `verifyJwtAgainstJwkSet` | `Verify`, `Refuse` |
| `authenticatePrivateKeyJwt`: `tryLock`, `spentWithin` | `Claim`, `RefuseReplay` |
| `rotateRefreshToken` (or a replay's revocation) on a connection of its own | `RotateDirect`, `RotateConsole` |
| `settle` with `keepingSpend`: done, refused, or the row's write lost | `Serve`, `RefuseSpent`, `LoseSpend` |
| retention of `client_assertion_jti` | `Reap` |
| `resolveSession` | `Call`, `ResolveAnswers`, `ResolveStale`, `ResolveLogout` |
| `singleFlight`, `semaphore` | `Join`, `TakeOff`, `Land` |
| `refreshUnderLock` | `LockAnswers`, `LockTimesOut`, `LockStale`, `Store`, `MintFails`, `MintRefused`, `EndRow` |
| `refresh` of `odudu-client.ts`, a token request in the same process | `Present`, `PresentFails`, `RotateConsole` |
| `logout`, `take`, `endGrant` | `TakeBegins`, `Take`, `TakeNothing`, `Revoke`, `RevokeFails` |

A refresh token is its generation in its family: a row holds `gen`, a request
`seen`, the server `family.current`. `uses`, `served`, `unspent`,
`family.reused` and `family.lost` are history. An assertion is verified and its
jti looked up in two steps, up to `MaxLookupTicks` ticks apart (`verifiedAt`); the
lock and the lookup are one, since nobody but the lock's holder writes the row.
After its rotation a console refresh may be answered with an error (`MintFails`)
or with a body the gateway cannot read, or refused after all (`MintRefused`, which
takes the row with it). *Abstractions.* Each console refresh authenticates by an
assertion of its own, never shared, so it is not tracked. The process has one
console semaphore; other processes appear as a row lock that times out and a
family revoked from elsewhere. A console session's own expiry, which takes the
row as a logout does, and signing in to the console are left out.

**SignIn** is the sign-in of one browser. Its variables are the tables
(`auth` for `authentication_sessions`, `failures` for `login_failures`,
`lastStep` for the TOTP credentials, `session`/`ended` for `sessions`), the
browser's cookies (`jar`), and each tab's submission (`sub`) with the record it
read. The chain of a submission's transactions is its `pc`:

| Code | Actions |
|---|---|
| `loadFlowContext` | `Submit` (the snapshot; nothing is locked) |
| `advance`: the step, the subject guard, the writes | `Resume`, `Challenge`, `JudgeRight`, `JudgeWrong`, `RefuseMismatch`, `RefuseReplayed`, `Pass` |
| `recordFailure` | `ReadFailures`, `Record`, `Contend` |
| `handleLoginSubmission` after `advance` | `TurnAway`, `Park`, `Proceed` |
| `handleConsentSubmission` | `Consent` |
| `completeLogin` with `admitSession` | `Complete`, `RefuseDisabled`, `RefuseConsumed` |
| the `Set-Cookie` of `completeAuthorizedLogin` | `TakeCookies` |
| administrator | `Disable`, `ClearLockout` |

The flow is the default one without its alternatives: a password, then a code
from whoever has enrolled. A time step is one tick and a code is its step.
A verdict on an address to verify, a required action and a consent are one
choice, `Park` or `Proceed`. `proven`, `counted` and `raced` are history variables, and
`who` names the person at the tab. `Rivals` says whether two people's
submissions may be *in flight together* on one attempt; one may always follow
the other. *Left out:* passkeys, recovery codes, unknown accounts, the expiry of
an attempt, enrolment during a sign-in, remember-me, and the promotion of a
reused session.

**Logins** is the abstract specification `SignIn` implements: factors passed,
codes spent and sessions granted, with no attempt record, no submissions and no
failures in it. `ImplementsLogins` is the refinement, with `passed <- proven` and
`spent <- lastStep`.

The **MC** modules give TLC the small sets and symmetries; `LogoutQueue` needs
none. The **Proofs** modules hold the proofs. `FamilySteps` states once what a
step of `TokenFamilies` may do to a row already made and to a request that does
not take it; `FamilyEndingsProofs` cites that in place of the actions.

## Runs

| Run | Question | Bounds |
|---|---|---|
| `Rotation` | two requests, two clients (one unvetted), one code: rotation and redemption interleaved with every event that ends a family, policy changes and failures | 3 tokens, 2 grants, one tick, no retention |
| `Retention` | one request of an unvetted client against the pass, four kinds of grant, narrowed scopes, policy and subject changing meanwhile | four instants, windows at zero beyond the lifetimes, 3 tokens, 2 grants, requests within one tick |
| `Answering` | is every request answered, the pass deleting the tokens, codes, grants and sessions it works on | two requests, 2 tokens, 2 grants, session-bound, four instants, requests of up to two ticks |
| `MailDelivery` | two senders whose passes outlive the lease, dying and losing writes at any step: is an attempt handed over once, and a message sent or out of attempts in the end | 2 messages, 2 attempts, lease 1, passes of 2 ticks |
| `LogoutDelivery` | two passes over two deliveries, one failure: does the row lock keep them apart, what does a failure cost, is an answer final, does every delivery settle | 2 attempts, lease 1, passes of 1 tick |
| `TokenRequests` | direct requests sharing an assertion that expires and whose row retention deletes, two tabs of one console session and a logout, another session, all on one pool, with a fault or a crash: is an assertion served once, does the console trip reuse detection, are connections and slots given back exactly once, is everyone answered | 4 connections, 2 direct requests (one a refresh), 1 slot, three instants, lookup within one tick, 1 fault |
| `SignIn` | two tabs, two people (one enrolled, one administered), two attempts, one of them hinted | 4 submissions, 2 ticks, 2 failures to lock, cap 1, no rivals |
| `NarrowedRefresh`, `RetentionBoundary`, `OnePersonPerAttempt`, `AssertionStraddle`, `PoolExhaustion` | the findings below | as small as shows them |

*Why these bounds reach the cases.* Three tokens let a family rotate and be
rotated again, or two requests race for one token and a third value exist for
the loser to have taken. Two grants let a code be redeemed twice if it could
be. Two requests are what a race needs; the proofs cover any number. One tick
separates "expired" from "not yet" when every lifetime is one or two ticks;
retention needs three, to pass a lifetime and then a window. `MaxReaps` is one:
passes exclude each other by advisory lock, and a second sees the first's
committed state. `Requests` are interchangeable, hence the symmetry; it is not
used with the liveness property.

In the queues two attempts are what it takes to see a retry and a limit reached;
two messages in one batch, to see one message's time eat another's lease; two
senders, to see a claim met by another. One failure (`MaxFailures`) separates
"attempts bound posts" from "attempts and failures do"; the proof covers any
number.

A wait between a request and the pass needs a row the pass deletes, and so time
for it to lapse under the request. In `Answering` a request straddles the ticks at
which its token, its code or its session lapses, and a second request replays or
reuses meanwhile: requests wait for the pass at `RotateConsume` and `CodeConsume`,
the pass waits for a rotation at `ReapTokensLock` and for a redemption at
`ReapCodesLock`, and a revocation waits for a grant that is locked. A code lives
one tick longer than its session, so that a redemption's insert waits for the
session's deletion and the deletion for the insert's share lock. All of these
waits are reached. Two tokens do not let two rotations race for one (two
redemptions race for the code): one that waits at its first row holds nothing.
Logouts and evictions are off: they are one statement each and hold nothing.

Four connections give the console one slot (`refreshConcurrency` grants at least
one), and its flight holds two while it waits for its third. With one direct
refresh beside it, holding one and waiting for its second, the pool is just large
enough: the condition is `Cardinality(Refreshes) + 2 * RefreshConcurrency < Pool`,
and `TokenRequests` is its tightest case; a slot per two connections, the mutant,
stops it. Nothing in the code bounds the direct refreshes: `PoolExhaustion` is
the condition broken.

A lookup may come one tick after the verification, so that an assertion verified
in its last instant is looked up once it has expired; retention deletes rows a
tick after that. With two ticks between them, `AssertionStraddle`, it is too late
by one.

The queues' runs have two rows and a batch of two, so a claim takes whatever is
due: the LIMIT and the ORDER BY of the claim (`BatchesOf`) are not exercised, and
the theorems, which put no bound on the rows, cover them.

In `SignIn` four submissions let a person pass both factors and another person,
or the same one in the other tab, submit meanwhile and once more; two ticks let a
code go stale and a lock run out; cap 1 makes every second login evict.

`Retention` has `MaxRequestTicks = 0` and windows long enough for the code's
lifetime beyond a session grace of zero: that is the regime the retention ADR
describes. What happens when a request straddles an expiry is what
`RetentionBoundary` shows, and what a shorter grace does is finding 6.

*Deadlock.* It is checked in the passing safety runs: with events still
possible the system never stops. It is off in `Answering`,
`TokenRequests`, `SignIn` and the runs that explore no events, which end when ids,
requests and time run out.

*Fairness* (`Answering`): weak fairness of the pass, since the
runtime resumes a promise whose query has returned; strong fairness of each
handler's next step, since that step may be a statement waiting for a row, and
PostgreSQL queues the waiters of a lock: a row that is freed and taken again does
not pass a waiter over for ever. A cycle of waits disables all its members for
good, so strong fairness hides none. Nothing is assumed of clients, events or the
clock.
`TokenRequests` assumes only that some request takes a step while one can: a query
that returns resumes its request, and an idle connection goes to the head of the
queue. No fault and no clock is assumed.
`MailDelivery` and `LogoutDelivery` assume that the clock runs, that a pass that
began takes its next step, and that each scheduler begins another pass, which
`scheduler.ts` does in a `finally`. They assume nothing of what a transport or a
relying party answers. Senders may die in `MailDelivery`, at every pass if they
like: the claim has spent the attempt. Passes fail a bounded number of times in
`LogoutDelivery`: one that failed every time would spend nothing, which is finding
7. No run of a liveness property uses symmetry.

## Properties

- `OneUsableToken`, `OneGrantPerCode`: the races of rotation and redemption.
- `ReuseEndsFamily`, `ReplayEndsGrant`: detection, also while the other party
  is still in flight and also after the pass has run.
- `OnlyDisablingBurns`: of a request whose token has been spent, only a subject
  disabled meanwhile is refused.
- `EndedFamilyYieldsNothing`: the second reading of the grant in the rotating
  transaction. It relies on sessions keeping their grants, and so does not
  hold where finding 6 bites.
- `ForeignClientSpendsNothing`, `RevocationIsFinal`: what no step may do.
- `EvidenceLeavesWithFamily`, `ReapSparesUsable`, `SessionBindingKept`:
  retention.
- `EveryRequestAnswered`: no request waits for ever for another or for the pass,
  although both take several rows' locks in one transaction.
- `EachAttemptOnce`: a mail is handed over at most once per counted attempt,
  whatever overlaps or dies. `OneSenderPerMessage`, proved and not run, is the stronger promise that
  needs passes to end within their lease: a sender whose batch takes longer than
  300 s from the instant its pass read, other tenants' batches included, loses
  its messages to another while it still holds them. `SentCarriesNoError`: a late failure
  never overwrites another sender's success. A late failure of a sender that
  lost its lease does move the row's next attempt, and so may end the new
  holder's lease early; the attempt each holds is still its own.
- `OnePassPerDelivery`, `AnsweredIsFinal`, `FailuresBoundPosts`: the same
  questions of logout deliveries, where the row lock and the commit carry them.
  `AttemptsBoundPosts` is the promise of a comment, and does not hold (finding 7).
- `EveryMessageSettles`, `EveryDeliverySettles`: liveness of the queues.
- `AssertionServesOnce`, `SpentWhateverBecomes`: an assertion's single use, by
  overlapping and repeated requests, with refusals that commit their spend and
  spends that are lost. The first says no work is done twice; the second says a
  second authentication needs a failure of the store, not merely of the request.
  Both need the lookup to follow the verification within one tick;
  `AssertionStraddle` is two.
- `ReuseOnlyAfterLostAnswer`: the row is read again under its lock, and the
  flights of a session are one at a time, so the console trips reuse detection
  only when the answer to a committed rotation was lost (`MintFails`, `Crash`). A
  refresh whose answer cannot be read, or is a refusal, deletes the row instead.
  The comment at `odudu-port.ts:30` counts such a failure among those after which
  "the stored token still stands"; it does not, and the next refresh ends the
  grant.
- `NoConnectionLeaks`: every connection is idle or in the hands of a request that
  still needs it, whether requests end served, refused, failed, timed out or in a
  crash.
  `FlightsWithinSlots`: the semaphore hands a slot to the head of its queue
  without counting it free in between (`semaphore.ts`), so no more refreshes are
  in flight than slots, and none is lost.
- `TokenRequests`' `EveryRequestAnswered`: pool, semaphore, flights and row lock
  never wait for one another in a cycle while the pool is large enough for the
  direct refreshes; `PoolExhaustion` is where it is not.
- `OneSessionPerAttempt`, `SessionEarned`, `ImplementsLogins`: what a sign-in
  promises, of submissions that overlap, repeat, are reset and are resumed. The
  second assumes that no two people's submissions are in flight on one attempt
  (`Rivals` false); of those that are, `OnePersonPerAttempt` tells.
- `CountedUnlessRaced`: the count of a run is below the failures recorded in it
  only where a failure that had read a broken run overwrote it. A run begins with
  the write that finds its *row* missing or quiet. `FailuresCounted`, without the
  exception, is what a comment promises, and does not hold (finding 8).
  `JarWithinCap`: the sessions a browser can prove stay under the cap; those
  it lost the cookies of may be alive beyond it, the residual of ADR 0033.

What the sign-in does *not* promise, seen while modelling: a failure written
after `clear()` that was read before it inserts the old run's count; a right password judged before a concurrent failure
locks the account still completes and clears the lock, although `advance` says "A
locked account cannot get here"; a policy whose lockout is longer than its reset
period lets a failure during the lock begin a new, unlocked run; and a consent
POST that arrives between an attempt's completion and the reset a hint's mismatch
owes, or after an unverified address returned before that reset, is completed for
the person who signed in, although `consent-submission.ts:127` argues that no such
attempt is left.

## Findings

Each of the first five has a run that shows it.

1. `NarrowedRefresh`. A refresh of a grant holding `mcp:read` that names the
   issuer as its `resource` passes the gate, spends its token, and is refused by
   `mintAccessToken` (`token-issuance.ts:485`). ADR 0019: "a request that was
   never going to succeed consumes nothing".
2. `RetentionBoundary`. A rotation that began before its token's expiry and
   commits while the pass waits for the token's row leaves the family alive and
   the used token deleted. ADR 0021: "A row may be deleted only once no
   detection can still need it."
3. `AssertionStraddle`. The clock is read for the verification and the jti looked
   up by a later query (`private-key-jwt-authentication.ts:143`, `:158`); the
   retention rule has no grace (`reap.ts:358`). An assertion verified in its last
   instant, and looked up after a pass has deleted the row of its first use, serves
   a second time. `reap.ts:354`: "once that instant has passed the assertion could
   never satisfy the exp check that makes it presentable again".
4. `PoolExhaustion`. A refresh asks for the connection of its rotation while it
   holds its own (`token-issuance.ts:866`), and the pool (`db/src/client.ts:32`, ten
   by default) waits without a limit. As many direct refreshes at once as the
   pool has connections, or six beside two console flights, are never answered.
   `docs/protocols/rfc7523.md:97`: "a request that succeeds takes no connection
   beside its own".
5. `OnePersonPerAttempt`. `advance` decides from a record it read without a lock,
   and `bindSubject` writes unconditionally (`authentication-sessions.ts:101`): of
   two people whose submissions overlap on one attempt, the later commit takes
   the attempt over, and keeps the factors the other passed. `executor.ts:947`:
   "One attempt answers for one person."

The others are one line away from a passing run, and TLC shows each when that
line is changed.

6. `SessionBindingKept` with `CodeTtl = 2` in `Retention.cfg`. A code may outlive
   its session and the session's grace (the settings allow a code 600 s and a grace
   of 60 s); redeemed while the pass deletes the session, its grant loses its
   `session_id` and becomes an offline one. The comment at `reap.ts:484` argues that
   nothing can. Redeemed after the session's row is gone, the same code meets the
   grant's foreign key and ends in an internal error, although
   `schema/authorization-codes.ts:33` says it "must still redeem".
7. `AttemptsBoundPosts` for `FailuresBoundPosts` in `LogoutDelivery.cfg`. A tenant's
   pass over its logout deliveries is one transaction (`cli/send-logouts.ts:151`), so
   a failure after a post takes the claim back: the attempt is not spent, the lease
   never existed, and the relying party is asked again as often as passes fail.
   `repository/logout-deliveries.ts:77`: "`attempts` is spent up front".
8. `FailuresCounted` for `CountedUnlessRaced` in `SignIn.cfg`. Two failures that read
   a run of one, gone quiet for the reset window, both restart it at one, and the
   comparison of counts (`login-failures.ts:112`) lets the second through.
   `login-failures.ts:94`: "the second re-checks what the first committed and
   writes nothing rather than replacing it with the same number".

## Proofs

`TokenFamiliesProofs` assumes `ConstantsAssumption` and nothing else, so the
theorems hold for any sets of requests, clients, codes, grants and tokens and
any lifetimes.

- `TypeCorrect`: `Spec => []TypeOK`.
- `FamilyInvariant`: `Spec => []IInv`, from which
- `OneUsableTokenAlways`, `OneGrantPerCodeAlways`,
- `RevocationIsFinalAlways`, `ForeignClientSpendsNothingAlways`.

*The argument.* `OneUsableToken` is not inductive: `RotateCommit` adds an unused
token and marks another used, which helps only if the one it marks is the
family's unused one. So `IInv` says what a request between `consume` and commit
may rely on: its token is a row, unused, of the grant the request names, and no
other request holds it (`TokenHeld`); the same for codes (`CodeHeld`). Those are
stable because `consume` waits for the lock and the pass waits for the holders,
which is where the locks enter the proof. `GrantOrigin` ties a grant to the
consumed code it came from: a code a redemption holds is unconsumed, so no
grant came from it yet. `OwnerRefreshes` carries the gate's verdict on the
client to the commit, a grant's client never changing. `Typed` adds to the types
that references are rows of the right table and that an id not yet handed out is
referred to by nobody.

The proof has one lemma per action, then one step per conjunct the action can
disturb.

`FamilyEndingsProofs` proves how a family ends, for any constants. Two
hypotheses name the corners the findings are about. `HeldRowsInTime`: no token or
code a transaction in flight holds has lapsed at the instant the pass judges by
(unless its family is too young for the pass). `HeldSessionsInTime`: no session
that a redemption in flight binds to is past its grace there. `RetentionBoundary`
violates the first, and finding 6 the second.

- Under `[]HeldRowsInTime`: `EndingsInvariant`, and from it
  `ReuseEndsFamilyInTime`, `ReplayEndsGrantInTime`,
  `EvidenceLeavesWithFamilyInTime`, `ReapSparesUsableInTime`.
- Under `[]HeldSessionsInTime`: `SessionBindingKeptInTime`,
  `EndedFamilyYieldsNothingInTime`.
- Which settings satisfy the hypotheses: `PromptRowsInTime` (no pass, or requests
  within one instant) and `GraceKeepsSessionsInTime` (no pass, or `CodeTtl + 2 *
  MaxRequestTicks <= SessionGrace + 1`: a code's lifetime and the two spans a
  redemption may take, before and after its transaction began; with a grace one
  tick shorter TLC finds the counterexample). `EndingsWherePrompt` and
  `BindingsUnderGrace` are the results with the settings as their only
  assumption; the constants of `Rotation` and `Retention` satisfy both.
- `OnlyDisablingBurnsOffIssuer`: under `Issuer \notin AskedResources`, `Spec =>
  []OnlyDisablingBurns`. `NarrowedRefresh` is what happens without the
  assumption.

*The argument.* A finished request says nothing of the rows it read, and the pass
may have deleted them since. `Endings` therefore follows both. Of a request:
what it found spent is still marked, so it takes the detecting branch, and once
answered its family is over, which is stable (`Spent`, `ReuseAnswered`,
`ReplayAnswered`). Of the pass: what it selected is still as it judged it, from
the statement that selects to the commit (`PassTokens`, `PassCodes`,
`PassGrants`), so a deleted token or consumed code leaves no family behind
(`TokenEvidence`, `CodeEvidence`). It is between selection and commit that a
rotation could add a token to a family judged dead: it cannot, because the token
it holds would keep that family alive, provided it has not lapsed, and that is
the hypothesis. `Bindings` is the same for sessions: those the pass will delete
have no grant but the ones it deletes (`PassSessions`), so a family that was over
when its rotation began is over at each of the rotation's reads (`EndedRead`).
`Promptness` bounds the age of what a request holds. `Gate` carries the gate's
verdict to the mint: client, scope and audience of a grant never change, and of
what the verdict read only the subject may have changed.

`OutboxProofs` and `LogoutQueueProofs` assume `QueueAssumption` (and
`FailureAssumption`).

- `EachAttemptOnceAlways`: `Spec => []EachAttemptOnce`, from `OutboxInvariant`.
  That an attempt was handed over at most once says nothing of the next send;
  what does is that the attempt a pass holds has not been handed over yet unless
  the pass is about to record it (`HeldUnsent`). A claim keeps that true because
  it takes the attempt after the last counted one, never handed over
  (`UncountedUnsent`), and no other pass holds it: what others hold is counted
  already (`ClaimsCounted`, `ClaimsApart`). Leases play no part.
- `OneSenderWithinLease`: under `MaxPassTicks < Lease`, `Spec =>
  []OneSenderPerMessage`. For a pass that holds a message, `next = Lease - age`
  (`LeaseRuns`), so for any other pass's instant, at most `MaxPassTicks` old, the
  message is not due. A mark moves `next`, but of a message being given up.
- `SentCarriesNoErrorAlways`: `Spec => []SentCarriesNoError`; both marks touch
  only a row not yet sent.
- `OnePassPerDeliveryAlways`: `Spec => []OnePassPerDelivery`, from
  `DeliveryLocks`; whatever the lease, with failures.
- `FailuresBoundPostsAlways`: `Spec => []FailuresBoundPosts`. Posts exceed
  attempts and failures together by at most one, and only while a pass that
  posted has yet to end (`PostsCounted`); with the lock, that is one pass, and a
  claimed row has an attempt left.
- `AnsweredIsFinalAlways`: `Spec => AnsweredIsFinal`. A delivery answered for good
  is held by the pass that heard it, or that pass has committed and left it
  delivered or without attempts (`AnsweredClosed`); the lock covers the time
  between the answer and the commit, and a claim offers neither.

- `TypeCorrect`, of each: `Spec => []TypeOK`. That the next attempt is a time at
  all needs that `RetryDelay`'s exponential is a number whatever the attempts.

`TokenRequestsProofs` assumes the constants' assumptions, and its first two
theorems that `MaxLookupTicks <= 1`.

- `OneServicePerAssertion`, `UsedAssertionIsSpent`: from `JtiInv`. A request that
  holds an assertion's lock is the only one (`OneUser`), and every use is
  accounted for: it is being worked on, was served and has a row, was refused and
  has a row, or ended unspent (`Ledger`). Retention deletes a row only past its
  assertion's expiry, and a request that is still to look a jti up verified it
  before the expiry and at most `MaxLookupTicks` ago (`Timely`). One tick is
  therefore over when a row goes, and no lookup misses it; with two the ledger does
  not survive retention, which is finding 3.
- `ConsoleTripsNoReuse`: from `ReuseInv`. A request between `LockStale` and the
  rotation presents what its row, while there is one, holds (`Faithful`), one per session is past
  `TakeOff` (`OneFlight`), and a row is behind its family only if an answer was
  lost or one is on its way.
- `ConnectionsNeverLeak`, `SemaphoreHolds`, `TypeCorrect`: from `Accounts`, an
  equation over the requests: the free connections, the requests that hold one
  (`Holders`) and those that hold a second (`Doubles`) add up to the pool, and the
  slots in use are the refreshes in flight (`Flying`), at most
  `RefreshConcurrency`. Each step moves one request, so each count by what it holds
  before and after (`CountMoves`); a slot handed on leaves the count alone because
  the one it goes to was waiting for it (`WaitersWait` of `ReuseInv`).

`SignInProofs` likewise.

- `EveryFailureCounts`: `Spec => []CountedUnlessRaced`. A write that finds its row
  missing or quiet begins a run, of which it is the first failure; any other finds
  the count it observed, and either counts on from it or was decided from a run
  that was broken, which `raced` remembers. No assumption on who overlaps.
  `AttemptCompletesOnce`: a session's attempt is consumed (`Spent`).
- `OnePersonWithoutRivals`, `SessionsAreEarned`, `SignInImplementsLogins` assume
  `~Rivals`: what a submission read of its attempt is what its own person proved
  there (`ReadProven`), or nothing, since those in flight beside it are the same
  person's (`Together`, `Coherent`); a finished submission states factors its
  subject proved (`StatedProven`). A reset only forgets. The refinement's step
  simulation follows: `Pass` is a factor passed, `Complete` a session granted,
  everything else a stutter. The finding is what happens without the assumption.
- `JarStaysWithinCap`: the jar never proves more sessions than the cap, for any
  cap and any history. Cookies name sessions there are or were (`Jars`), and a
  response on its way has evicted enough for its own session (`Roomy`). The code evicts
  by rank; `EvictionsMakeRoom` shows that those before the least one kept are as
  many as the surplus, so that no induction over the jar is needed.
- `TypeCorrect`: `Spec => []TypeOK`. The lock doubles with the failures; that
  `2^k` is a number comes from its counting the subsets of a set of `k`.

*Only model-checked.* Liveness: `EveryRequestAnswered` of `TokenFamilies` and of
`TokenRequests`, `EveryMessageSettles`, `EveryDeliverySettles`. It needs fairness
and `ENABLED`, which are out of the prover's reach. Every safety invariant and
action property of a passing run is stated by a theorem, some under a hypothesis
named above; each such hypothesis holds in the run, and what happens without it
is a finding.

## Plan

1. An abstract family (`usable`, `over`, and two events) that `TokenFamilies`
   implements, its step simulation proved.
2. `LogoutQueue`'s `Enqueue` composed with `TokenFamilies`' `EndSession` and
   `EndAllAccess`: every ending of a family that a relying party shared reaches
   the queue, and a second ending does not reach it twice.
3. The rest of the flow: recovery codes and passkeys, the expiry of an attempt,
   the promotion of a reused session; action tokens.
4. Throttles and the MCP write budget: single conditional statements, of which
   the window's boundary is the interesting part.

Not modelled, and not planned: rendering, the administration API's validation,
role and group closure, cryptography, SMTP and DNS adapters.
