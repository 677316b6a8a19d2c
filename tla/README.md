# Lahijan in TLA+

Lahijan is a self-hosted cloud portal written in Go. One process (or several
replicas of it) serves the HTTP API, runs background jobs and drives Incus,
PowerDNS, SeaweedFS, Stripe and a domain registrar; Postgres holds everything
the portal knows. This directory models the parts of it where money, addresses,
instances, sessions and second factors can go wrong, checks them with TLC and proves the central
properties with TLAPS.

Paths below are relative to `src/internal/app/lahijan/`.

- [The system](#the-system)
- [What is modelled](#what-is-modelled)
- [The modules and the code](#the-modules-and-the-code)
- [Runs](#runs)
- [Proofs](#proofs)
- [Findings](#findings), [Further counterexamples](#further-counterexamples) and [Further hazards](#further-hazards)
- [Not modelled](#not-modelled)
- [How the project was built](#how-the-project-was-built)

## The system

### Components

| component | code | state | operations | what makes it correct |
|---|---|---|---|---|
| Billing ledger | `billing/ledger.go` | `ledger_entries`, `user_balances` (a cache) | Topup, Refund, PostCharge, RebuildBalance | a keyed charge is posted once; the cache is the sum of the rows |
| Stripe webhook | `billing/payments.go` | `billing_webhook_events` | HandleWebhook, one handler per event type | an event credits once, a failed one is redone |
| Subscriptions | `billing/subscriptions.go` | `billing_subscriptions`, Stripe's own state | Create-, CancelSubscription, the events | the local row follows Stripe |
| Promo codes | `billing/promo_codes.go` | `billing_promo_codes` | Create-, Revoke-, RedeemPromoCode | credits stay within `max_uses` |
| Payment methods | `billing/payments.go` | `billing_payment_methods` | AddPaymentMethod, SetDefault, Remove, CreateTopupIntent | one default, no method Stripe does not have |
| Usage rollup, enforcement, receipts | `billing/jobs.go`, `enforce.go`, `receipts.go` | `usage_events`, `receipts` | hourly rollup, balance check, monthly receipt | all usage is charged once; only debtors are stopped |
| Price catalogue | `billing/catalog.go` | `prices` | SetPrice, GetPriceAt | one price at any time |
| Domain registrar | `registrar/service.go` | `dns_domains`, the upstream registry | Register-, Renew-, Transfer-, DeleteDomain | every order is paid for, every row was ordered |
| Floating IPs, pools | `compute/floating_ips.go`, `ip_pools.go`, `ip_allocation.go` | `ip_pools`, `ip_pool_ranges`, `floating_ips`, Incus forwards | Allocate, Attach, Detach, Release, pool and range operations | an address has one holder; forwards match rows |
| Instances, snapshots, quota, placement | `compute/instances.go`, `snapshots.go`, `quota.go`, `placement.go` | `compute_instances`, Incus | Create-, SetState-, Update-, DeleteInstance, snapshots | the row matches the daemon, quotas hold |
| Networks, profiles, images, volumes, backups | `compute/*.go` | one table each, Incus | create, update, delete | the same |
| Sessions, refresh tokens | `auth/session/session.go` | `sessions`, `refresh_tokens`, `users` | Login, Refresh, Logout, disabling a user | rotation, reuse detection, no session of a disabled user |
| MFA | `auth/mfa/mfa.go` | pending sessions, factors, recovery codes | Challenge, enrolment | a pending token and a code are used once |
| Other sign-in | `auth/oauth`, `oidc`, `saml`, `idp`, `directory` | identities | sign-in, linking | protocol libraries |
| RBAC, secrets, audit | `auth/rbac`, `secrets`, `audit` | roles, audit log | Require, Seal/Open, Emit | pure decisions; append only |
| DNS | `dns/*.go` | zones and records, in Postgres and in PowerDNS | create, update, delete | both sides agree |
| Object storage | `storage/*.go` | buckets, credentials, quotas, in Postgres and in SeaweedFS | create, delete, mint, revoke | both sides agree; no credential without a row |
| WASM plugins | `wasm/*` | plugins, permissions, KV, subscriptions | install, enable, invoke, host functions | only granted permissions; one listener per subscription |
| Agent | `agent/*.go` | conversations, tool calls | send, confirm a tool call | a confirmed tool runs once |
| Jobs | `jobs/*.go` | River's tables (external) | register, retry | at-least-once execution |
| HTTP API | `api/*.go` | none | decode, authorise, call, encode | |
| Wiring | `program`, `conf`, `bootstrap`, `settings`, `database`, `providers` | none, configuration | | |
| Clients, generated code | `web/`, `sdk-go/`, `pkg/`, `api/gen` | | | |

### How they interact

API handlers call one service operation per request, in the request's goroutine.
Services write Postgres through repositories (one statement per method) and call
providers over HTTP. Payments, promo codes, subscriptions, the registrar and the
rollup job all credit or charge through the ledger, and know nothing of it but its
answers. Stripe calls back through the webhook receiver. Jobs run under River, which
may run a job more than once. Several replicas may serve one database.

### What is hard

**There are no transactions.** With a few exceptions no operation of the modelled
packages opens one: an operation is a sequence of independent SQL statements and
remote calls. All the properties here are about what lies between them:

- two operations interleave at every statement, across goroutines, jobs, webhook
  deliveries and replicas; the only synchronisation is unique indexes and
  conditional UPDATEs;
- the process dies, or the request's context is cancelled, between two statements;
- a statement or a remote call fails, or *takes effect and its answer is lost*;
- callers retry, Stripe delivers at least once and in any order;
- many errors are ignored (`_ =`), often on purpose.

PROJECT.json lists the forty hazards that matter most, each with its line and the properties that cover
it; [Further hazards](#further-hazards) lists the rest.

## What is modelled

| module | models | composed with |
|---|---|---|
| `ChargeBook` | abstract: what the ledger promises its callers, each call atomic | |
| `BillingLedger` | `billing/ledger.go`, statement by statement | implements `ChargeBook` |
| `OnceInbox` | abstract: an at-most-once inbox | |
| `StripeWebhook` | the webhook receiver and its handlers | implements `OnceInbox` |
| `Subscriptions` | the subscription calls and Stripe | extends `StripeWebhook`: both write `billing_subscriptions` |
| `PromoCodes` | creation, revocation, redemption | |
| `Registrar` | the domain operations and the upstream registry | takes its charge steps from `ChargeBook` |
| `RegistrarLedger` | the domain operations over the statements of PostCharge | takes its charge steps from `BillingLedger`; implements `Registrar` |
| `IPAllocation` | the walk of `firstFreeInPrefix` | |
| `FloatingIPs` | floating IPs, pools, ranges and Incus forwards | uses what `IPAllocation` promises of a range |
| `Sessions` | login, rotation, reuse, logout, disabling a user | |
| `ComputeInstances` | creation, changes of state, configuration, deletion, reconciliation of instances, the quota and the Incus daemon | |
| `MFAChallenge` | pending logins, challenges, enrolment of TOTP, recovery codes | |

Each detailed module has an `MC...` module with its small instance and a `...Proofs` module. Three share one with
the module they are composed with: `StripeWebhook` has its theorems in `SubscriptionsProofs`, `IPAllocation` in
`FloatingIPsProofs`, `RegistrarLedger` in `RegistrarProofs`. The theorems about `ChargeBook` and `OnceInbox` are
the refinement theorems of their implementations.

### Conventions

- A **call** is one execution of an operation. `pc[c]` is the statement it executes
  next, `answer[c]` how it ended. One action per statement: its guard is the `pc` and
  the code's condition, its disjuncts are the ways the statement can end.
- A call inserts at most one row of a table, so **a row is named by the call that
  inserted it**. This makes `Calls` the only bound on most tables, and keeps ids,
  timestamps and payloads out of the state.
- `...Fails` actions are the error paths: the statement did nothing, *or* it committed
  and the acknowledgement was lost. `Crash` ends a call between any two statements.
- **History variables** record what happened to a code, a name or a token: `disturbed`, `hindered`, `late`
  in `PromoCodes`, `excess`, and in `MFAChallenge` `tries`, `peak`, `shared`, `dirty`, `proved`, `raced` and
  `behind`. No action reads them to decide what happens. A property such as `FreshUnlessDisturbed` says "X holds
  unless Y happened"; the history variable is Y. That is what the code can
  promise without a transaction, and it tells a reader the exact list of causes.
- A `Name_Variant` operator next to `Name` is a plausible bug in it. It is
  not part of the specification; substituting it must make the property fail.

## The modules and the code

### BillingLedger (`billing/ledger.go`)

`ledger` is `ledger_entries`, `balances` is `user_balances`, represented by the *set of
rows it has summed*, so that a stale cache is a missing element and amounts are needed
only for the low-balance event. `Begin`, `LookupKey`, `InsertRow` / `InsertConflicts` /
`InsertFails` and `LookupWinner` are PostCharge (Topup and Refund go straight to the
insert); `SumForUser`, `ReadPrior`, `Upsert`, `RefreshFails` are refreshBalance, which
RebuildBalance also runs. The lookup of a key is scoped to a tenant and the unique index
is not: `VisibleWithKey` and `KeyTaken` differ in exactly that.

- `ChargedExactlyOnce`: an answered keyed charge stands in the ledger exactly once.
- `FreshUnlessDisturbed`: overlap and failure of refreshes are the only causes of a stale
  cache.
- `RebuildRepairs` (liveness): a rebuild issued when the account is otherwise at rest ends
  with a cache equal to the ledger or does not report success.
- `BookSpec`: the interleaved statements implement `ChargeBook`.

### StripeWebhook (`HandleWebhook` and its handlers)

`status[d]` is the event row that delivery `d` inserted (`absent` when it did not), `credits`
the deliveries that posted to the ledger, `subs` the local subscriptions. `LookupEvent`,
`InsertEvent`, `Dispatch`, `PostCredit`, `SetStatus`, `MarkApplied` and `MarkFailed` are the
statements in their order. The signature has been verified; payloads are records of what
the handlers look at. An event whose metadata carries no tenant (`ours = FALSE`) is stored with
`tenant_id` NULL, which the tenant-scoped UPDATE of `Marked` never matches.

- `CreditedAtMostOnce`, `AppliedIsCredited`, and `InboxSpec`: the receiver implements
  `OnceInbox`. Its types are part of `SubscriptionsTypeOK`.

### Subscriptions

Adds the two API calls (`Start`, `CallGateway`, `CacheRow` and their failures) and Stripe
(`Renew`, `End`, and the events it emits, delivered in any order by `Webhook`, which is the
receiver's own next-state relation restricted to emitted events). The idempotency key of a
create is the tenant, user and plan, so a Stripe subscription is identified with that triple.

- `LocalFollowsStripe`: the local row never says "canceled" or "expired" before Stripe does,
  though two writers act on answers and events of different age.

### PromoCodes

RedeemPromoCode is `Lookup`, `IncrementUse`, `Reread`, `Credit`. `IncrementUse` is the
conditional UPDATE, whose "no row matched" is no error; `Reread` is the SELECT after it,
which takes *any* use of the code for its own.

- `UsesWithinMax`, `CreditsCounted` (credits are covered by counted uses while no redemption
  or revocation came between the statements of another). `LateIsRefused` (nothing is credited to a call made
  after the end of its code) is a theorem only.

### Registrar

`charges`, `refunds` and `posted` are the ledger, used through `Book`, the instance of
`ChargeBook`: the registrar is stated against what the ledger promises. `holder`, `years` and `orders` are the
upstream registry, `rows` is `dns_domains`. RegisterDomain is `Begin`, `Check`,
`RecordCharge`/`AnswerCharge`, `PlaceOrder` or `OrderFails`, then `CreateRow` or `Refund`;
RenewDomain ends with `SetExpiry` and `SetLedgerLink`. `KeyOf` is the idempotency key of the
charge, which contains neither time nor attempt. The refund is PostCharge of a negative amount;
`ValidAmount` refuses it, as `validateAmount` does, and the error is dropped.

`RegistrarLedger` replaces the two steps of the book by the statements of PostCharge: `Charge` is one
statement of `Ledger`, the instance of `BillingLedger` whose `ledger` is `charges` and whose requests are
`ChargeOf(c)`; `ChargeReturns` is the registrar's check of what came back; `ComposedCrash` ends an operation
together with the PostCharge it is in. `BillingLedger` fixes the request of a call at its start. Here the
key is known only when the operation has read its row, so that `BookSpec` cannot be used as it stands, and
the composition has an invariant of its own.

- `OrdersStayPaid`: an order that was carried out has exactly one charge under its key and no refund.
- `ExpiryNotAhead`; `RowsAreOrders`: a row stands for an order and names one charge of its tenant for the domain.
- `RegistrarSpec`: the registrar over the statements implements the registrar over the book.
- `OrdersStayPaid` deserves a note: it holds *because* the refund never succeeds. The mutant
  `ValidAmount_NonZero` accepts negative amounts, and TLC then finds two registrations that
  share a key and a charge, of which the one that lost gets the money of both back. Repairing the
  refund needs a repair of the key as well.

### IPAllocation and FloatingIPs

`IPAllocation` is the loop of `firstFreeInPrefix`, one action per branch, over addresses as
numbers; a prefix is its family, first address and size, `looked` counts the addresses tried. `ReturnsFirstFree` says that it
returns the least usable address, or that none of the addresses it may look at is usable.

`FloatingIPs` takes that result for each range (`IsFirstFree`; the theorem `WalkAnswersPick` links the two) and models the operations
statement by statement. `Pick` reads ranges and allocations in one step although the code
issues a SELECT for the ranges and one for the allocations: what a range added or removed in
between changes is only which address is proposed, and the unique index decides in `Insert`
whatever was proposed. `rows` is `floating_ips`, `forwards` the forwards of the Incus daemon
by project and address. `seen` is the row a call read at its start, on which it acts later.

- `AddressUnique`, `AttachedWithinTenant`.
- `ForwardsFollowRows`: an address whose operations never overlapped, failed or were cut off has a
  forward exactly when its live row says "pushed", through any sequence of attaches,
  detaches, releases and re-allocations, and deletions of instances and pools.

### Sessions

A session is named by the call that opened it, a refresh token by the call that issued it; a
family is a session's. `BeginLogin` (from the check of `is_active` on), `CreateSession`,
`IssueRefresh` are openSession; `LookupToken` branches to `Rotate`/`LoadSession`/`IssueRefresh`, to
`Discard` (expired) or to `BurnFamily`/`CloseSession` (reuse, logout). `BeginAdmin`, `SetUser`, `Sweep`
are UpdateAdminUser and DeleteAdminUser. The answer "inactive" stands for any refusal of a
user that is not active. `ExpireSession` and `ExpireToken` are the clock.

- `OneLiveToken`, `RotatedOnce`, `BurntStaysBurnt`, `DisabledHasNoSession`.

### ComputeInstances (`compute/instances.go`, `compute/quota.go`)

`rows`, `cachedStatus` and `cachedCpus` are `compute_instances`; `daemon`, `status` and `cpus` are what Incus has
under each name. The database knows an instance by its row and the daemon by its name, so a delete may reach
the instance of a namesake. CreateInstance is `BeginCreate`, `CheckQuota`, `InsertRow`, `CreateOnDaemon`, and
`Discard` when the daemon refuses; an answer that never came (`CreateOnDaemonUnknown`) leaves the row for
`ReconcileInstance`. SetInstanceState is `Act`, `Probe`, `SetStatus`; DeleteInstance is `Act` (the
stop, when `First` says so), `Remove`, `SoftDelete`; UpdateInstance is `ReadLive`, `Put`, `UpdateConfig`.
`Late` is an operation whose wait the server gave up and which the daemon executes afterwards;
`GuestStops` is a halt from inside. Of a configuration only `limits.cpu` is kept, which the quota adds up;
memory, disk and the number of instances are checked by the same two statements.

- `QuotaHolds`: the rows of a tenant stay within its quota unless two creates overlapped or a patch
  enlarged an instance.
- `RowsHaveInstances`: no orphan instance, no row without an instance, and no namesake removed, unless a delete
  overlapped or an answer or statement was lost.
- `RowsMirrorInstances`: the cached status and configuration are the daemon's on a name where the calls ran
  one at a time and to their end.
- `OmittedIsKept` (action property): a PATCH that omits the configuration puts back the one the instance
  has, though the PUT replaces it wholesale.

`DeleteInstance` of `FloatingIPs` stays the single action that its SQL effect on `floating_ips` is: nothing else
of an instance's life reaches that table.

### MFAChallenge (`auth/mfa/mfa.go`, `api/mfa_handlers.go`)

`issued`, `expired`, `consumed`, `revoked`, `failed` are `mfa_pending_sessions`; `secret`, `confirmed` are
`user_totp_secrets`; `unused`, `used` are `user_recovery_codes`. A challenge is `Challenge` (the check of
the row), `VerifyFactor` or `FindRecoveryCode` and `SpendCode`, `Consume`, `OpenForExistingUser`; a wrong answer
goes through `RejectFactor`, `IncFailures`, `Recheck` and `Revoke`. Neither Consume reads the number of rows it
matched, so `Spend` and `Consumed` never refuse. Enrolment is `EnrollTOTP`, `UpsertSecret`, `VerifyTOTP`,
`ConfirmSecret`, after which the service and then its handler each mint a batch of recovery codes (`Batch`): a
DELETE and one INSERT per code, as RegenerateRecoveryCodes does. What the user types is right or wrong for the row
the call has read; the user has no passkey.

- `OpensOnce`: a pending token opens no more sessions than challenges of it ran at once, a recovery
  code one, unless two challenges had found it at once.
- `Lockout`: a token with `MaxAttempts` failures is revoked when no challenge of it is running, and no more wrong
  answers are examined than `MaxAttempts - 1` and one per overlapping challenge; only failed statements and crashes lift it.
- `OneBatch`: unless the last minting failed, was cut off or was overlapped, the codes are those of one batch, all of
  them, which the user was given.
- `ConfirmedWasProved`, `ConfirmedStays`: a confirmed secret is one the user typed a code of, and is disabled
  before it is replaced, unless an enrolment came between the statements of a verification or the reverse.

## Runs

| run | instance | distinct states | shows |
|---|---|---|---|
| `billing_ledger` | 3 calls of 6 requests, 2 tenants, 1 key | 753 276 | TypeOK, ChargedExactlyOnce, FreshUnlessDisturbed, BookSpec |
| `billing_rebuild` | 3 calls, charges and rebuilds, fair | 161 572 | RebuildRepairs |
| `stripe_webhook` | 3 deliveries of 6 events, 1 subscription | 148 442 | CreditedAtMostOnce, AppliedIsCredited, InboxSpec |
| `webhook_retry` | 2 deliveries | | **violates** FailedIsRetried |
| `subscriptions` | 2 API calls, 2 deliveries, 2 periods | 566 837 | SubscriptionsTypeOK, LocalFollowsStripe |
| `promo_codes` | 3 redemptions, codes of 1, 2 and unlimited uses | 1 389 869 | TypeOK, UsesWithinMax, CreditsCounted |
| `ip_allocation` | every aligned prefix of 1 to 8 addresses, every set of taken ones | 3 624 | WalkTypeOK, ReturnsFirstFree |
| `floating_ips` | 3 calls, 2 tenants, 2 instances, 2 ranges | 1 083 600 | TypeOK, AddressUnique, AttachedWithinTenant, ForwardsFollowRows |
| `sessions` | 4 calls | 606 413 | TypeOK, OneLiveToken, RotatedOnce, BurntStaysBurnt, DisabledHasNoSession |
| `registrar` | 3 calls of 4 requests, 2 tenants, 1 domain, over the statements of PostCharge | 2 716 207 | ComposedTypeOK, OrdersStayPaid, ExpiryNotAhead, RowsAreOrders, RegistrarSpec |
| `compute_instances` | 3 calls, 2 names, instances of 1 or 2 vCPUs, a quota of 2 | 314 671 | TypeOK, QuotaHolds, RowsHaveInstances, RowsMirrorInstances, OmittedIsKept |
| `mfa_challenge` | 3 requests, 2 pending tokens, lockout after 2, batches of 2 codes | 2 742 982 | TypeOK, OpensOnce, Lockout, OneBatch, ConfirmedWasProved, ConfirmedStays |

**Why the bounds are enough to be interesting.** Every bug the mutants stand for needs two
racing calls, or two and an earlier one; three calls give a race after a completed
operation, or a race of two against a third. Sessions needs four (login, rotation, two presentations of a
token). The registrar has four too (registration, deletion, another registration, a renewal) when it runs over the
book, `MCRegistrar.cfg` with 1 109 798 states; over the statements of PostCharge three calls are what TLC
gets through in minutes, and `ImplementsRegistrar` covers the rest. Two tenants
are needed exactly where a lookup is scoped to a tenant and an index is not. The two ranges of
`floating_ips` hold one address each, so that an address is given back and allocated again within three
calls. In `ip_allocation` the address space ends with the largest prefix and `MaxIter` is below its
size, so the end of the space, the end of the range and the cap all occur; the code's cap is 65536.
In `compute_instances` the quota is that of two small instances or one large one, so that creates compete for
it and a patch can exceed it; two names are needed for that, and one is used again by a namesake. In
`mfa_challenge` a token that was answered refuses the next challenge, so a recovery code is used again only with
a second token; the lockout and the batch are of the smallest size that has a middle.
`MaxPeriod`, and the numbering `nr` of events below 8, bound Stripe; nothing else is
bounded. Calls are interchangeable in every run with `SYMMETRY` (no call is
distinguished in a definition); the liveness run uses none.

**Deadlock** is not checked: calls are finite in number and the system rests when
all have returned. (`registrar` does check it: the registry keeps changing.)

**Fairness.** Only `billing_rebuild` needs it: `FairSpec` asks that a call that has begun takes
its next statement eventually, which is what a runnable goroutine with a request timeout does.
It assumes nothing about success: the next step may be a failure. No fairness is assumed of
clients, Stripe, retries or `Begin`.

## Proofs

`tlapm <Module>Proofs.tla` checks them. TLC checks the instance above; the theorems hold for any sets
of calls, tenants, keys, codes, ranges and requests that satisfy the assumptions named in the modules
(mostly that a "null" value lies outside its set; `BillingLedger` and `MFAChallenge` also assume that `Calls` is
finite, for their sums and counts).

| theorem | property | the invariant it needs |
|---|---|---|
| `BillingLedgerProofs!ChargedOnce` | ChargedExactlyOnce | `ChargeInv`: one row per key; a call that has not passed its insert has no row; each answer names a row. The property alone is not inductive: an answer is given from `pc`, so `pc` must imply the row |
| `!FreshCache` | FreshUnlessDisturbed | `AccountFresh`: at most one undisturbed refresh at a time, and every row is in the cache, in the running refresh's sum, or owned by a call that has its SUM ahead of it |
| `!ImplementsBook` | BookSpec | the two above; each statement maps to Record, Answer or a stutter |
| `SubscriptionsProofs!CreditedOnce`, `!AppliedCredited` | CreditedAtMostOnce, AppliedIsCredited | `InboxInv`: one row per event, and what the row and the ledger hold at each `pc` |
| `!ImplementsInbox` | InboxSpec | the same |
| `!ComposedInbox`, `!ComposedCredits` | InboxSpec and the two properties, of the composed system | the same: `InboxStep` and `InboxMoves` speak of any step that leaves the receiver's own variables alone or is a step of a delivery, so they serve both specifications |
| `!FollowsStripe` | LocalFollowsStripe | `FollowInv`: every emitted event, every answer in flight and every row is true of Stripe; Stripe only moves on |
| `PromoCodesProofs!UsesBounded`, `!LateRefused` | UsesWithinMax, LateIsRefused | `TypeInv` |
| `!CreditsCovered` | CreditsCounted | `CountInv`: on an undisturbed code one redemption runs at a time, and past its UPDATE the counter is one ahead of the credits |
| `FloatingIPsProofs!UniqueAddresses` | AddressUnique | `TypeInv` |
| `!WithinTenant` | AttachedWithinTenant | `TenantInv`: a call past the check has an instance of its tenant; instances do not change hands |
| `!ForwardsFollow` | ForwardsFollowRows | `ForwardInv`: on a quiet address one call works at a time, and what it has read, pushed or removed agrees with the daemon |
| `!FirstFree` | ReturnsFirstFree | `Walked`: the cursor is the start plus `looked`, and no usable address lies before it |
| `!WalkAnswersPick` | | the same: what the walk over a range returns is what the action `Pick` takes from it |
| `SessionsProofs!RotationKeepsOne`, `!ReuseDetected` | OneLiveToken, RotatedOnce | `Family(s)`: what tokens are live at each statement of the only call on an undisturbed family |
| `!BurntForGood`, `!DisabledIsOut` | BurntStaysBurnt, DisabledHasNoSession | `Family`, `ClosedInv` and the corresponding invariant of the administrator's calls |
| `RegistrarProofs!OrdersPaid` | OrdersStayPaid | `PaidInv`: no refund is recorded, and a call past its charge has a row under its key; `OneCharge`: that row is the only one |
| `!NeverAhead`, `!RowsTrue` | ExpiryNotAhead, RowsAreOrders | `RowInv`: an answer held by a call was granted; the years granted only grow |
| `!ImplementsRegistrar` | RegistrarSpec | `LinkInv`: where a PostCharge stands, or what it returned, says whether its row is in the ledger. The INSERT that commits is the book's Record, the return of PostCharge its Answer, every other statement a stutter |
| `!ComposedOrders` | OrdersStayPaid, ExpiryNotAhead, RowsAreOrders, of the composition | follows from the refinement |
| `ComputeInstancesProofs!QuotaCorrect` | QuotaHolds | `QuotaInv`: while creates do not overlap, the rows and the create that has passed its check together fit the quota |
| `!InstancesCorrect` | RowsHaveInstances | `UniqueInv`, one live row per name, and `InstInv(n)`: what row and instance are at each `pc` of the create or delete that works on the name |
| `!MirrorCorrect` | RowsMirrorInstances | `MirrorInv(n)` on top of it: on an undisturbed name the one running call holds what the daemon answered, and the rest agrees |
| `!PatchKeeps` | OmittedIsKept | the same |
| `MFAChallengeProofs!SessionsOpenOnce` | OpensOnce | `PeakInv`: the sessions a token has opened and the challenges still running on it are no more than ran at once; `SpendInv`: a recovery code is held by one challenge, and is gone from the table before a session opens |
| `!LockoutHolds` | Lockout | `LockInv`: every wrong answer is in the counter or on its way there; a counter past the limit has a call that is about to revoke; tries and challenges that may still answer are within the limit and the peak. `Staged`: the challenges of a token by how far they have got are disjoint sets of those that run |
| `!BatchesWhole` | OneBatch | `BatchInv`: the last minting is alone while nothing has befallen it, and the table holds what it has inserted |
| `!ConfirmedProved`, `!ConfirmedKept` | ConfirmedWasProved, ConfirmedStays | `ConfirmInv`: what a running verification confirms was typed or replaced under it |
| `TypeCorrect`, `WalkType`, `SubscriptionsTypeCorrect`, `ComposedTypes` | each type invariant | `CallInv` or `Stage` where a call's `pc` decides what its locals hold; in `MFAChallenge` `BoundInv` for the counters |

**Only model-checked.** `RebuildRepairs`: liveness under fairness is outside what the proof system handles. All
other properties of the passing runs are theorems. The counterexamples, by their nature, are TLC's.

## Findings

One of them is a run:

- `webhook_retry`. `HandleWebhook` promises that a failed event is redone by Stripe's retry, but the
  dedup lookup (`billing/payments.go:569`) takes a row of *any* status for a processed event. A payment
  whose credit failed is answered 200 on its next delivery and is never credited.

### Further counterexamples

Each of these properties states a comment of the code or of a migration, has a definition in
its module and a cfg; run `tlc -config <cfg> <MC module>` to see the behaviour (a cfg with several claims
checks the one that is not commented out).

| property | cfg | what happens |
|---|---|---|
| `TopupVisible` | `MCLedgerClaims.cfg` | two topups: the refresh with the older sum writes last, and a topup that returned is not in the cached balance |
| `LowCrossingEmits` | `MCLedgerClaims.cfg` | racing refreshes take the balance across the threshold without an event |
| `ProcessedIsMarked` | `MCWebhookUnscoped.cfg` | the row of an event without tenant stays "received" for ever |
| `CreditsWithinMaxUses` | `MCSingleUse.cfg` | when the conditional UPDATE matches no row, `IncrementUse` (`database/billing_payments_repo.go:747`) reads the code back and takes a counter that is not zero for its own success: two users who race for a single-use code are both credited |
| `EveryOrderIsCharged` | `MCRegistrarClaims.cfg` | the key of a charge names kind, tenant, domain or row, and period (`registrar/service.go:423`): a second renewal for the same period is carried out upstream and answered with the charge of the first |
| `StatusOfInstance` | `MCInstanceClaims.cfg` | the state of an instance cannot be read after an operation, and the operation's "Success" is cached as the instance's status |
| `PatchWithinQuota` | `MCInstanceClaims.cfg` | a PATCH enlarges an instance without asking the quota |
| `SingleUse` | `MCChallengeClaims.cfg` | two challenges of one pending token pass the check of its row together and both open a session |
| `OldCodesStop` | `MCChallengeClaims.cfg` | two mintings that both delete before either inserts leave two batches of recovery codes |
| `Lifecycle` | `MCStripeOrder.cfg` | the event Stripe sends for a cancellation sets the row back to "active" |
| `PeriodNeverRegresses` | `MCStripeOrder.cfg` | events of two periods in the wrong order move the period end back |
| `QuotaIsCredited` | `MCStripeOrder.cfg` | `invoice.paid` is handled before the local row exists; the quota is never credited |
| `OncePerUser` | `MCOncePerUser.cfg` | a user redeems a two-use code twice |
| `OneAddressPerInstance` | `MCOneAddress.cfg` | two addresses are attached to one instance |
| `DeletedPoolIsEmpty` | `MCAddressClaims.cfg` | an allocation commits between the check and the deletion of its pool |
| `DeleteInstanceDetaches` | `MCAddressClaims.cfg` | instances are soft-deleted, so ON DELETE SET NULL does not fire |
| `PicksLowest` | `MCPicksLowest.cfg` | ranges are walked in the textual order of their CIDR |
| `ReleaseDetaches` | `MCAddressClaims.cfg` | an attach overlaps a release; the forward outlives the row |
| `RefreshSlides` | `MCRefreshSlides.cfg` | a refresh does not extend the session: after its lifetime refreshes succeed and requests stay unauthenticated |
| `FailedIsRefunded` | `MCRegistrarClaims.cfg` | no failed order is refunded: the negative charge is refused and the error dropped |

### Further hazards

Hazards of one call or of parts that are not modelled, besides those of PROJECT.json and the rows of the table above:

- `billing/subscriptions.go:401`: the idempotency key is the tenant, user and plan: subscribing again after the end of a subscription replays the old Stripe id, which the unique index refuses.
- `compute/floating_ips.go:107`: when two pools have overlapping ranges the pick only looks at its own pool's rows, so every retry picks the same taken address and answers 409.
- `registrar/service.go:422`: the price of a renewal divides by the years of the registration and applies the margin to a price that already contains it.
- `agent/service.go:634`: ConfirmToolCall reads the status, runs the tool and writes the status unguarded: two confirmations run it twice, and an approval races a refusal.
- `agent/service.go:863`: the rate limit counts messages and inserts afterwards, so concurrent messages pass together; the spend cap does the same.
- `compute/snapshots.go:138`: the row of a snapshot is inserted before the request to the daemon and removed only when the operation definitely failed; the removal's error is ignored, and a request that was refused leaves a row without a snapshot.
- `billing/jobs.go:144`: the rollup logs and skips the users it fails for, and the run counts as done: their usage is charged only if the same window is rolled up again.
- `billing/jobs.go:221`: the users with usage are listed from the balances that are zero or below: whoever is in credit is never charged.
- `database/queries/billing.sql:220`: the sum of the usage events of a period includes both ends: an event on the boundary is charged in two windows.
- `billing/enforce.go:34`: the enforcement lists the users in debt and then stops their instances: a top-up in between comes too late, and any refresh of the cached balance restarts the grace period.
- `billing/payments.go:405`: the row of a new default method is inserted with is_default set while the old default still has it: the partial unique index refuses it after the card was attached at Stripe, and SetDefault, which clears the old one, would come later. Its two statements are in no transaction: a failure between them leaves no default.
- `billing/payments.go:509`: the key of a top-up intent is made of the tenant, user and amount: a second top-up of the same amount gets the first intent back.
- `billing/payments.go:292`: the Stripe customer is remembered in a sentinel row that is inactive, and the lookup lists active rows: until a card is added every call searches Stripe by e-mail, whatever tenant the customer it finds belongs to.
- `billing/payments.go:461`: the method is detached at Stripe and then deactivated locally: a failure in between leaves an active row whose method is gone.
- `dns/records.go:136`: the record is written at PowerDNS and then in the table, without a rollback.
- `dns/zones.go:133`: the zone is created upstream, the row insert fails, and the rollback may fail as well; a deletion has the same two steps.
- `storage/buckets.go:174`: the bucket is created upstream, the row insert fails, and the rollback is best effort: a retry meets a bucket nobody owns.
- `storage/credentials.go:172`: the key pair is minted upstream and the row is not written; the rollback's error is ignored, which leaves a working credential that no row lists.
- `wasm/eventbus/bus.go:182`: an Emit works on a copy of the listeners: a listener may be called after Unregister has returned, when what it uses is already torn down.
- `program/signup.go:49`: the tenant is created and then its owner: a failure in between leaves a tenant without an owner and a user without a tenant.
- `auth/session/session.go:553`: a change of the password leaves the open sessions and their refresh tokens valid.

## Not modelled

- **Of the modelled components**: logging, audit rows, emitted WASM events and metering
  (nothing reads them back in these operations); signature checks and payload decoding;
  password hashing and credential checks before a login; Register, e-mail tokens
  and password changes; the plan catalogue and its push to Stripe; reverse DNS; CreateIPPool;
  the margin arithmetic of domain prices, and `dns_domains` columns no property reads.
- **Remote systems** are modelled by what the code can observe: an accepted, refused or lost
  request. Stripe's dunning, Incus' scheduling and the registry's rules are not.
- **Of instances**: snapshots, backups and migration (each one row and one request to the daemon, without the
  cached status that makes instances hard), memory, disk and instance-count quotas (the same check and the
  same gap as the vCPUs), the choice of a node, and the background listing that only reads.
- **Of second factors**: WebAuthn (the ceremonies are a library's, and a passkey opens a session through the same
  `Consume`), the tenant policy that forces enrolment, and the arithmetic of TOTP.
- **Usage rollup, enforcement, receipts**: a rollup's charge is a PostCharge under a key, which
  `BillingLedger` covers for retries and races. What is left is which windows and users its queries choose: sequential
  choices of one job, listed above with their lines.
- **Payment methods**: one default per user and one active row per card are kept by two partial unique
  indexes, whatever the statements do. What can go wrong is that a statement they refuse comes after
  the request to Stripe: single calls, listed above with their lines.
- **Object storage and DNS**: create upstream, insert, roll back, the reverse of CreateInstance with three statements,
  no cached status and no concurrent reader of the result. Their partial failures are listed.
- **Agent and plugins**: the steps of a conversation are the answers of a language model, those of a plugin its
  bytecode; what is left is one unguarded status update and one mutex around a list of listeners.
- **Other components**: see PROJECT.json, which gives the reason for each. Most are wrappers around one
  statement or one remote call, streams, protocol libraries or generated code, which is also
  most of the repository's volume.

## How the project was built

In this order, the most valuable first: ledger, webhook, subscriptions, promo codes, address
allocation, floating IPs, sessions, registrar, instances, second factors. Each module started from the statements of
one operation and a type invariant; a property entered when TLC could break it with a plausible bug
in the code, and its proof when TLC had found the inductive invariant consistent. A change of the code should go
the same way: change the action its line is mapped to in PROJECT.json, run the MC module, then `tlapm`.

Worth adding first, should the code grow there: `UsageRollup` over `ChargeBook` once windows overlap or several
replicas roll up.
